---- MODULE Spec2Model ----
(***************************************************************************)
(* Spreadsheet import / reconciliation engine of MoscowProm.               *)
(*                                                                         *)
(* The model covers the two importers (the positional one of               *)
(* app/services/excel_processor_v2.py, used by the upload endpoint, and    *)
(* the header-driven one of app/services/excel_processor.py), the          *)
(* SQLAlchemy session they write through (autocommit=False,                *)
(* autoflush=False, app/db/database.py) and the relational store with the  *)
(* constraints declared in app/db/models.py.                               *)
(*                                                                         *)
(* Cell values, texts and numbers:                                         *)
(*   - a text is a sequence of one-character strings, so that strip(),     *)
(*     slicing and float() parsing are computed and not assumed;           *)
(*   - a number is an integer (the workbooks of the model hold             *)
(*     integer-valued numbers only; Python float/int are not told apart);  *)
(*   - Python None is the value None below.                                *)
(***************************************************************************)
EXTENDS Integers, Sequences, FiniteSets, TLC

(***************************************************************************)
(* Values                                                                  *)
(***************************************************************************)
None == [t |-> "none"]
Num(k) == [t |-> "num", n |-> k]
Str(x) == [t |-> "str", s |-> x]
Bool(b) == [t |-> "bool", b |-> b]
\* float("inf"): the only non-finite float the model's inputs can produce
Inf == [t |-> "inf"]
\* an integer above the range of a 32-bit signed integer, written in decimal
\* without leading zeros (Python integers are unbounded)
Big(digits) == [t |-> "big", digits |-> digits]
\* the result of an expression that raised; kind is the Python exception class
Raised(kind) == [t |-> "raise", kind |-> kind]

\* v is a raised exception (an ORM object is a record without the tag t)
IsRaised(v) == "t" \in DOMAIN v /\ v.t = "raise"

\* Body applied to value: LET x == value IN Body(x), for a value that Body
\* uses more than once
With(value, Body(_)) == Body(value)

\* Python truthiness (bool(v)) of a value
Truthy(v) ==
    CASE v.t = "none" -> FALSE
      [] v.t = "num" -> v.n # 0
      [] v.t = "str" -> v.s # <<>>
      [] v.t = "bool" -> v.b
      [] v.t = "inf" -> TRUE
      [] v.t = "big" -> TRUE
      [] OTHER -> FALSE

DigitChars == <<"0", "1", "2", "3", "4", "5", "6", "7", "8", "9">>

IsDigit(c) == \E i \in 1..10 : DigitChars[i] = c

DigitVal(c) == (CHOOSE i \in 1..10 : DigitChars[i] = c) - 1

\* str.strip(): drops leading and trailing blanks
RECURSIVE LStrip(_)
LStrip(x) == IF x # <<>> /\ Head(x) = " " THEN LStrip(Tail(x)) ELSE x

RECURSIVE RStrip(_)
RStrip(x) ==
    IF x # <<>> /\ x[Len(x)] = " " THEN RStrip(SubSeq(x, 1, Len(x) - 1)) ELSE x

\* a strip() that leaves the blanks where they are
StripKeepsBlanks(x) == x
Strip(x) == RStrip(LStrip(x))

\* the decimal value of a non-empty sequence of digits
RECURSIVE DigitsToNat(_)
DigitsToNat(x) ==
    IF x = <<>> THEN 0
    ELSE DigitsToNat(SubSeq(x, 1, Len(x) - 1)) * 10 + DigitVal(x[Len(x)])

RECURSIVE NatToDigits(_)
NatToDigits(k) ==
    IF k < 10 THEN <<DigitChars[k + 1]>>
    ELSE Append(NatToDigits(k \div 10), DigitChars[(k % 10) + 1])

\* str(value) of a cell value
PyStr(v) ==
    CASE v.t = "str" -> v.s
      [] v.t = "num" -> IF v.n < 0 THEN <<"-">> \o NatToDigits(0 - v.n)
                        ELSE NatToDigits(v.n)
      [] v.t = "bool" -> IF v.b THEN <<"T", "r", "u", "e">>
                         ELSE <<"F", "a", "l", "s", "e">>
      [] v.t = "big" -> v.digits
      [] OTHER -> <<"N", "o", "n", "e">>

\* the largest value of a PostgreSQL INTEGER column
INT4_MAX == 2147483647

\* a digit sequence without its leading zeros
RECURSIVE StripZeros(_)
StripZeros(x) ==
    IF Len(x) > 1 /\ Head(x) = "0" THEN StripZeros(Tail(x)) ELSE x

\* x > y for two digit sequences of the same length
RECURSIVE DigitsGreater(_, _)
DigitsGreater(x, y) ==
    IF x = <<>> THEN FALSE
    ELSE IF DigitVal(Head(x)) # DigitVal(Head(y))
         THEN DigitVal(Head(x)) > DigitVal(Head(y))
    ELSE DigitsGreater(Tail(x), Tail(y))

\* the number a digit sequence writes is above 2147483647
AboveInt4(x) ==
    \/ Len(StripZeros(x)) > Len(NatToDigits(INT4_MAX))
    \/ /\ Len(StripZeros(x)) = Len(NatToDigits(INT4_MAX))
       /\ DigitsGreater(StripZeros(x), NatToDigits(INT4_MAX))

\* float(value): a number is itself; a text is stripped and parsed, digits
\* give their value, "inf" gives infinity, anything else raises ValueError;
\* None raises TypeError
PyFloat(v) ==
    CASE v.t = "num" -> v
      [] v.t = "inf" -> v
      [] v.t = "big" -> v
      [] v.t = "bool" -> Num(IF v.b THEN 1 ELSE 0)
      [] v.t = "str" ->
            LET x == Strip(v.s)
            IN  IF x # <<>> /\ \A i \in 1..Len(x) : IsDigit(x[i])
                THEN (IF AboveInt4(x) THEN Big(StripZeros(x))
                      ELSE Num(DigitsToNat(x)))
                ELSE IF x = <<"i", "n", "f">> THEN Inf
                ELSE Raised("ValueError")
      [] OTHER -> Raised("TypeError")

\* int(float(value)): int() of infinity raises OverflowError
PyIntFloat(v) ==
    With(PyFloat(v), LAMBDA f :
        IF f.t = "inf" THEN Raised("OverflowError") ELSE f)

(***************************************************************************)
(* Value coercion of the positional importer                               *)
(***************************************************************************)
\* max_len = 0 stands for max_len=None
safe_str(value, max_len) ==
    IF value = None \/ value = Str(<<>>) THEN None
    ELSE LET result == Strip(PyStr(value))
             cut == IF max_len # 0 /\ Len(result) > max_len
                    THEN SubSeq(result, 1, max_len) ELSE result
         IN  IF cut # <<>> THEN Str(cut) ELSE None

safe_float(value) ==
    IF value = None \/ value = Str(<<>>) THEN None
    ELSE IF value.t = "str" /\ Strip(value.s) = <<>> THEN None
    ELSE With(PyFloat(value), LAMBDA f :
            IF IsRaised(f) /\ f.kind \in {"ValueError", "TypeError"}
            THEN None ELSE f)

safe_int(value) ==
    IF value = None \/ value = Str(<<>>) THEN None
    ELSE IF value.t = "str" /\ Strip(value.s) = <<>> THEN None
    ELSE With(PyIntFloat(value), LAMBDA f :
            IF IsRaised(f) /\ f.kind \in {"ValueError", "TypeError"}
            THEN None ELSE f)

(***************************************************************************)
(* Workbook rows                                                           *)
(*                                                                         *)
(* A data row is a function from the 0-based column index to the cell      *)
(* value; openpyxl pads every row of a sheet to the sheet's width, so all  *)
(* rows of a workbook have the same width.                                 *)
(***************************************************************************)
RowWidth(row) == Cardinality(DOMAIN row)

\* row[c]
RowGet(row, c) == IF c < RowWidth(row) THEN row[c] ELSE Raised("IndexError")

\* row[c] if len(row) > c else None
RowGuarded(row, c) == IF RowWidth(row) > c THEN row[c] ELSE None

\* column indices of the positional layout
COL_INN == 1
COL_NAME == 2
COL_LEGAL_ADDRESS == 8
COL_MAIN_OKVED == 16
COL_COMPANY_SIZE == 21
COL_PHONE == 35
COL_MSP_STATUS == 44
COL_REVENUE == 47
COL_PROFIT == 54
COL_TOTAL_EMPLOYEES == 61
COL_MOSCOW_EMPLOYEES == 68
COL_TOTAL_FOT == 75
COL_MOSCOW_FOT == 82
COL_AVG_SALARY_TOTAL == 89
COL_AVG_SALARY_MOSCOW == 96
COL_TOTAL_TAXES == 103
COL_PROFIT_TAX == 111
COL_PROPERTY_TAX == 119
COL_LAND_TAX == 127
COL_NDFL == 135
COL_TRANSPORT_TAX == 143
COL_OTHER_TAXES == 151
COL_EXCISE == 159
COL_INVESTMENTS == 167
COL_EXPORT == 170
COL_PROPERTY_SUMMARY == 175
COL_CADASTRAL_LAND == 176
COL_LAND_AREA == 177
COL_CADASTRAL_BUILDING == 181
COL_PRODUCT_NAME == 188
COL_STANDARDIZED_PRODUCT == 189
COL_PRODUCT_TYPES == 190
COL_OKPD2 == 191
COL_REGISTRY_DEVELOPMENT == 200
COL_INDUSTRY_SPARK == 201
\* the columns after the layout, where a sheet of the header-driven importer
\* has the second and third spellings of three headers, for the first year
COL_MOSCOW_FOT_2 == COL_INDUSTRY_SPARK + 8
COL_MOSCOW_FOT_3 == COL_MOSCOW_FOT_2 + 1
COL_AVG_SALARY_MOSCOW_2 == COL_MOSCOW_FOT_3 + 1
COL_LAND_TAX_2 == COL_AVG_SALARY_MOSCOW_2 + 1

\* range(2017, 2024) of the metrics loop and range(2017, 2025) of the taxes
\* loop: the first year and the last year of each
FIRST_YEAR == 2017
LAST_METRIC_YEAR == 2023
LAST_TAX_YEAR == 2024
\* if year == 2021 (investments), if year == 2019 (export)
FIRST_INVESTMENT_YEAR == 2021
FIRST_EXPORT_YEAR == 2019
\* "Commit every 100 rows"
COMMIT_EVERY == 100
\* String(12) of Organization.inn
INN_MAX_LEN == 12

(***************************************************************************)
(* The store and the session                                               *)
(*                                                                         *)
(* A store holds the organizations table as a set of records (id is the    *)
(* primary key) and each child table as the sequence of its rows in        *)
(* insertion order (the position stands for the row's primary key).        *)
(*                                                                         *)
(* A session is                                                            *)
(*   tx       the store as the open transaction sees it: the committed     *)
(*            store plus everything already sent to the database;          *)
(*   pending  the objects given to db.add() and not yet flushed;           *)
(*            autoflush=False, so they are sent only by flush()/commit();  *)
(*   sess     "active", or "deactive" after a flush failed: the            *)
(*            transaction is rolled back and every statement raises        *)
(*            PendingRollbackError until rollback() is called.             *)
(***************************************************************************)
EmptyStore ==
    [orgs |-> {}, metrics |-> <<>>, taxes |-> <<>>, assets |-> <<>>,
     products |-> <<>>, meta |-> <<>>]

EmptyPending ==
    [orgs |-> <<>>, metrics |-> <<>>, taxes |-> <<>>, assets |-> <<>>,
     products |-> <<>>, meta |-> <<>>]

ChildTables == {"metrics", "taxes", "assets", "products", "meta"}

\* db.query(Organization).filter(Organization.inn == inn).first()
QueryOrgByInn(store, inn) ==
    IF \E o \in store.orgs : o.inn = inn
    THEN CHOOSE o \in store.orgs : o.inn = inn
    ELSE None

\* db.query(T).filter(T.organization_id == org_id).delete(): a bulk DELETE
\* statement, run in the transaction at once; pending objects are not rows
\* yet and are not touched
BulkDelete(store, table, org_id) ==
    [store EXCEPT ![table] =
        SelectSeq(@, LAMBDA r : r.organization_id # org_id)]

\* NOT NULL, UNIQUE and length constraints of the organizations table
OrgInsertOk(store, o) ==
    /\ o.inn # None
    /\ o.name # None
    /\ o.inn.t = "str" => Len(o.inn.s) <= INN_MAX_LEN
    /\ \A p \in store.orgs : p.inn # o.inn

\* foreign key and INTEGER range of a child row
ChildInsertOk(store, table, r) ==
    /\ \E o \in store.orgs : o.id = r.organization_id
    /\ table = "metrics" =>
          /\ r.total_employees.t = "num" => r.total_employees.n <= INT4_MAX
          /\ r.moscow_employees.t = "num" => r.moscow_employees.n <= INT4_MAX
          /\ r.total_employees.t # "big"
          /\ r.moscow_employees.t # "big"

\* INSERT of the pending organizations, in the order they were added; each
\* gets the next id of the sequence.  ok is FALSE when a constraint fails.
RECURSIVE InsertOrgs(_, _, _)
InsertOrgs(store, orgs, next) ==
    IF orgs = <<>> THEN [ok |-> TRUE, store |-> store, next |-> next]
    ELSE IF ~OrgInsertOk(store, Head(orgs))
         THEN [ok |-> FALSE, store |-> store, next |-> next]
         ELSE InsertOrgs(
                 [store EXCEPT !.orgs = @ \cup {[Head(orgs) EXCEPT !.id = next]}],
                 Tail(orgs), next + 1)

\* session.flush(): the unit of work inserts parents before children
Flush(s) ==
    IF s.sess # "active" THEN [s EXCEPT !.exc = "PendingRollbackError"]
    ELSE
    With(InsertOrgs(s.tx, s.pending.orgs, s.nextId), LAMBDA o :
        IF /\ o.ok
           /\ \A t \in ChildTables : \A i \in 1..Len(s.pending[t]) :
                 ChildInsertOk(o.store, t, s.pending[t][i])
        THEN [s EXCEPT
                !.tx = [t \in DOMAIN o.store |->
                          IF t = "orgs" THEN o.store.orgs
                          ELSE o.store[t] \o s.pending[t]],
                !.pending = EmptyPending,
                !.nextId = o.next]
        ELSE [s EXCEPT !.tx = s.db, !.pending = EmptyPending,
                       !.sess = "deactive", !.exc = "IntegrityError"])

\* session.commit(): flush, then make the transaction's store the committed
\* one.  A flush that fails inside commit() is followed by the rollback of
\* the whole transaction, which leaves the session usable; commit() on a
\* deactive session raises and changes nothing.
Commit(s) ==
    With(Flush(s), LAMBDA f :
        IF s.sess # "active" THEN f
        ELSE IF f.exc # "" THEN [f EXCEPT !.sess = "active"]
        ELSE [f EXCEPT !.db = f.tx])

(***************************************************************************)
(* The positional importer: one row of process_excel_file of               *)
(* excel_processor_v2.py.  A run record s holds the session (db, tx,       *)
(* pending, sess, nextId), the exception in flight (exc, "" when none)     *)
(* and the run's counters.                                                 *)
(***************************************************************************)
\* safe_float(row[c]) and safe_int(row[c]) of an unguarded read
FloatAt(row, c) ==
    IF IsRaised(RowGet(row, c)) THEN RowGet(row, c) ELSE safe_float(row[c])

IntAt(row, c) ==
    IF IsRaised(RowGet(row, c)) THEN RowGet(row, c) ELSE safe_int(row[c])

\* the first value of a sequence that is a raised exception, or None
RECURSIVE FirstRaised(_)
FirstRaised(vals) ==
    IF vals = <<>> THEN None
    ELSE IF IsRaised(Head(vals)) THEN Head(vals)
    ELSE FirstRaised(Tail(vals))

\* any([...]) over a sequence of values
PyAny(vals) == \E i \in 1..Len(vals) : Truthy(vals[i])

\* Organization(...) of the positional importer; the constructor reads the
\* columns up to 44 without a length guard
NewOrgV2(row, inn) ==
    IF IsRaised(RowGet(row, COL_MSP_STATUS)) THEN Raised("IndexError")
    ELSE [id |-> 0,
          inn |-> inn,
          name |-> safe_str(row[COL_NAME], 500),
          legal_address |-> safe_str(row[COL_LEGAL_ADDRESS], 0),
          main_okved |-> safe_str(row[COL_MAIN_OKVED], 0),
          company_size |-> safe_str(row[COL_COMPANY_SIZE], 0),
          phone |-> safe_str(row[COL_PHONE], 0)]

\* the record, unless one of the values is a raised exception: then the
\* first of them
RecordOrRaised(record, vals) ==
    With(FirstRaised(vals), LAMBDA bad : IF IsRaised(bad) THEN bad ELSE record)

\* one iteration of the metrics loop: the OrganizationMetrics object, or the
\* exception the iteration raises before it builds one
MetricV2(row, org_id, year_idx) ==
    With([organization_id |-> org_id,
          year |-> FIRST_YEAR + year_idx,
          revenue |-> FloatAt(row, COL_REVENUE + year_idx),
          profit |-> FloatAt(row, COL_PROFIT + year_idx),
          total_employees |-> IntAt(row, COL_TOTAL_EMPLOYEES + year_idx),
          moscow_employees |-> IntAt(row, COL_MOSCOW_EMPLOYEES + year_idx),
          total_fot |-> FloatAt(row, COL_TOTAL_FOT + year_idx),
          moscow_fot |-> FloatAt(row, COL_MOSCOW_FOT + year_idx),
          avg_salary_total |-> FloatAt(row, COL_AVG_SALARY_TOTAL + year_idx),
          avg_salary_moscow |->
            FloatAt(row, COL_AVG_SALARY_MOSCOW + year_idx),
          investments |->
            IF FIRST_YEAR + year_idx >= FIRST_INVESTMENT_YEAR
            THEN safe_float(RowGuarded(row,
                    COL_INVESTMENTS
                    + (FIRST_YEAR + year_idx - FIRST_INVESTMENT_YEAR)))
            ELSE None,
          export_volume |->
            IF FIRST_YEAR + year_idx >= FIRST_EXPORT_YEAR
            THEN safe_float(RowGuarded(row,
                    COL_EXPORT + (FIRST_YEAR + year_idx - FIRST_EXPORT_YEAR)))
            ELSE None],
         LAMBDA m :
            RecordOrRaised(m,
                <<m.revenue, m.profit, m.total_employees, m.moscow_employees,
                  m.total_fot, m.moscow_fot, m.avg_salary_total,
                  m.avg_salary_moscow>>))

\* "Only create metrics if we have at least one value"
HasMetricValueV2(m) ==
    PyAny(<<m.revenue, m.profit, m.total_employees, m.moscow_employees,
            m.total_fot, m.moscow_fot, m.avg_salary_total,
            m.avg_salary_moscow, m.investments, m.export_volume>>)

\* for year_idx, year in enumerate(range(2017, 2024)): the objects given to
\* db.add() before the loop ended or raised
RECURSIVE MetricsLoopV2(_, _, _, _)
MetricsLoopV2(row, org_id, year_idx, added) ==
    IF FIRST_YEAR + year_idx > LAST_METRIC_YEAR
    THEN [added |-> added, exc |-> ""]
    ELSE With(MetricV2(row, org_id, year_idx), LAMBDA m :
            IF IsRaised(m) THEN [added |-> added, exc |-> m.kind]
            ELSE MetricsLoopV2(row, org_id, year_idx + 1,
                    IF HasMetricValueV2(m) THEN Append(added, m) ELSE added))

TaxV2(row, org_id, year_idx) ==
    With([organization_id |-> org_id,
          year |-> FIRST_YEAR + year_idx,
          total_taxes_moscow |-> FloatAt(row, COL_TOTAL_TAXES + year_idx),
          profit_tax |-> FloatAt(row, COL_PROFIT_TAX + year_idx),
          property_tax |-> FloatAt(row, COL_PROPERTY_TAX + year_idx),
          land_tax |-> FloatAt(row, COL_LAND_TAX + year_idx),
          ndfl |-> FloatAt(row, COL_NDFL + year_idx),
          transport_tax |-> FloatAt(row, COL_TRANSPORT_TAX + year_idx),
          other_taxes |-> FloatAt(row, COL_OTHER_TAXES + year_idx),
          excise |-> FloatAt(row, COL_EXCISE + year_idx)],
         LAMBDA t :
            RecordOrRaised(t,
                <<t.total_taxes_moscow, t.profit_tax, t.property_tax,
                  t.land_tax, t.ndfl, t.transport_tax, t.other_taxes,
                  t.excise>>))

HasTaxValueV2(t) ==
    PyAny(<<t.total_taxes_moscow, t.profit_tax, t.property_tax, t.land_tax,
            t.ndfl, t.transport_tax, t.other_taxes, t.excise>>)

RECURSIVE TaxesLoopV2(_, _, _, _)
TaxesLoopV2(row, org_id, year_idx, added) ==
    IF FIRST_YEAR + year_idx > LAST_TAX_YEAR
    THEN [added |-> added, exc |-> ""]
    ELSE With(TaxV2(row, org_id, year_idx), LAMBDA t :
            IF IsRaised(t) THEN [added |-> added, exc |-> t.kind]
            ELSE TaxesLoopV2(row, org_id, year_idx + 1,
                    IF HasTaxValueV2(t) THEN Append(added, t) ELSE added))

\* the assets block: replace the organization's assets when the row has a
\* land or building cadastral number
AssetsV2(s, row, org_id) ==
    IF RowWidth(row) > COL_PROPERTY_SUMMARY
       /\ PyAny(<<RowGuarded(row, COL_CADASTRAL_LAND),
                  RowGuarded(row, COL_CADASTRAL_BUILDING)>>)
    THEN [s EXCEPT
            !.tx = BulkDelete(@, "assets", org_id),
            !.pending.assets = Append(@,
                [organization_id |-> org_id,
                 property_summary |->
                    safe_str(RowGuarded(row, COL_PROPERTY_SUMMARY), 0),
                 cadastral_number_land |->
                    safe_str(RowGuarded(row, COL_CADASTRAL_LAND), 0),
                 land_area |-> safe_float(RowGuarded(row, COL_LAND_AREA)),
                 cadastral_number_building |->
                    safe_str(RowGuarded(row, COL_CADASTRAL_BUILDING), 0)])]
    ELSE s

\* the products block: replace when the row has a product name or product
\* types
ProductsV2(s, row, org_id) ==
    IF RowWidth(row) > COL_PRODUCT_NAME
       /\ PyAny(<<RowGuarded(row, COL_PRODUCT_NAME),
                  RowGuarded(row, COL_PRODUCT_TYPES)>>)
    THEN [s EXCEPT
            !.tx = BulkDelete(@, "products", org_id),
            !.pending.products = Append(@,
                [organization_id |-> org_id,
                 product_name |->
                    safe_str(RowGuarded(row, COL_PRODUCT_NAME), 0),
                 standardized_product |->
                    safe_str(RowGuarded(row, COL_STANDARDIZED_PRODUCT), 0),
                 product_types |->
                    safe_str(RowGuarded(row, COL_PRODUCT_TYPES), 0),
                 okpd2_codes |-> safe_str(RowGuarded(row, COL_OKPD2), 0)])]
    ELSE s

\* the meta block: replace when the row has a registry or industry value
MetaV2(s, row, org_id) ==
    IF RowWidth(row) > COL_REGISTRY_DEVELOPMENT
       /\ PyAny(<<RowGuarded(row, COL_REGISTRY_DEVELOPMENT),
                  RowGuarded(row, COL_INDUSTRY_SPARK)>>)
    THEN [s EXCEPT
            !.tx = BulkDelete(@, "meta", org_id),
            !.pending.meta = Append(@,
                [organization_id |-> org_id,
                 registry_development |->
                    safe_str(RowGuarded(row, COL_REGISTRY_DEVELOPMENT), 0),
                 industry_spark |->
                    safe_str(RowGuarded(row, COL_INDUSTRY_SPARK), 0)])]
    ELSE s

\* rows_processed += 1, then "Commit every 100 rows"
CountAndCommit(s) ==
    IF (s.rows_processed + 1) % COMMIT_EVERY = 0
    THEN Commit([s EXCEPT !.rows_processed = @ + 1])
    ELSE [s EXCEPT !.rows_processed = @ + 1]

\* the body of the try block from the child records on, for the organization
\* org_id; a raised exception leaves in s what was staged before it
ChildrenV2(s, row, org_id) ==
    With(MetricsLoopV2(row, org_id, 0, <<>>), LAMBDA ml :
        IF ml.exc # ""
        THEN [s EXCEPT !.pending.metrics = @ \o ml.added, !.exc = ml.exc]
        ELSE
        With(TaxesLoopV2(row, org_id, 0, <<>>), LAMBDA tl :
            IF tl.exc # ""
            THEN [s EXCEPT !.pending.metrics = @ \o ml.added,
                           !.pending.taxes = @ \o tl.added,
                           !.exc = tl.exc]
            ELSE CountAndCommit(
                    MetaV2(
                        ProductsV2(
                            AssetsV2(
                                [s EXCEPT !.pending.metrics = @ \o ml.added,
                                          !.pending.taxes = @ \o tl.added],
                                row, org_id),
                            row, org_id),
                        row, org_id))))

\* the try block of one row
TryRowV2(s, row) ==
    With(IF IsRaised(RowGet(row, COL_INN)) THEN RowGet(row, COL_INN)
         ELSE safe_str(row[COL_INN], 0),
         LAMBDA inn :
        IF IsRaised(inn) THEN [s EXCEPT !.exc = inn.kind]
        ELSE IF ~Truthy(inn) THEN [s EXCEPT !.rows_skipped = @ + 1]
        ELSE IF s.sess # "active"
             THEN [s EXCEPT !.exc = "PendingRollbackError"]
        ELSE
        With(QueryOrgByInn(s.tx, inn), LAMBDA existing_org :
            IF existing_org # None
            THEN IF IsRaised(RowGet(row, COL_NAME))
                 THEN [s EXCEPT !.organizations_updated = @ + 1,
                                !.exc = "IndexError"]
                 ELSE ChildrenV2(
                         [s EXCEPT
                            !.organizations_updated = @ + 1,
                            !.tx = BulkDelete(
                                      BulkDelete(@, "metrics", existing_org.id),
                                      "taxes", existing_org.id)],
                         row, existing_org.id)
            ELSE With(NewOrgV2(row, inn), LAMBDA org :
                    IF IsRaised(org) THEN [s EXCEPT !.exc = org.kind]
                    ELSE With(Flush([s EXCEPT !.pending.orgs = Append(@, org)]),
                              LAMBDA f :
                            IF f.exc # "" THEN f
                            ELSE ChildrenV2(
                                    [f EXCEPT !.organizations_new = @ + 1],
                                    row, f.nextId - 1)))))

\* "Unknown", reported for a row too short to have the cell
UNKNOWN == <<"U", "n", "k", "n", "o", "w", "n">>

\* the except block: the failure is recorded and the loop continues; the
\* session is neither rolled back nor otherwise touched
ExceptRowV2(s, row, row_idx) ==
    IF s.exc = "" THEN s
    ELSE [s EXCEPT
            !.errors = Append(@,
                [row |-> row_idx,
                 inn |-> IF RowWidth(row) > COL_INN
                         THEN safe_str(row[COL_INN], 0) ELSE Str(UNKNOWN),
                 name |-> IF RowWidth(row) > COL_NAME
                          THEN safe_str(row[COL_NAME], 0) ELSE Str(UNKNOWN),
                 error |-> s.exc]),
            !.exc = ""]

RowV2(s, row, row_idx) == ExceptRowV2(TryRowV2(s, row), row, row_idx)

(***************************************************************************)
(* The header-driven importer: one row of process_excel_file of            *)
(* excel_processor.py.                                                     *)
(*                                                                         *)
(* A header is a record [h, y]: h names the header text and y is the year  *)
(* the text ends with (0 when it has none).  The header row of the model's *)
(* workbooks is the list the exporter writes: the texts the header-driven  *)
(* importer looks up, at the positions the positional importer reads.      *)
(***************************************************************************)
Hdr(h, y) == [h |-> h, y |-> y]

\* the column of the header row where the header text h stands (for a text
\* that ends with a year: where its first year stands); -1 for a text the
\* header row does not have
HeaderColumn(h) ==
    CASE h = "inn" -> COL_INN
      [] h = "name" -> COL_NAME
      [] h = "legal_address" -> COL_LEGAL_ADDRESS
      [] h = "main_okved" -> COL_MAIN_OKVED
      [] h = "company_size" -> COL_COMPANY_SIZE
      [] h = "phone" -> COL_PHONE
      [] h = "revenue" -> COL_REVENUE
      [] h = "profit" -> COL_PROFIT
      [] h = "total_employees" -> COL_TOTAL_EMPLOYEES
      [] h = "moscow_employees" -> COL_MOSCOW_EMPLOYEES
      [] h = "total_fot" -> COL_TOTAL_FOT
      [] h = "moscow_fot_1" -> COL_MOSCOW_FOT
      [] h = "avg_salary_total" -> COL_AVG_SALARY_TOTAL
      [] h = "avg_salary_moscow_1" -> COL_AVG_SALARY_MOSCOW
      [] h = "total_taxes_moscow" -> COL_TOTAL_TAXES
      [] h = "profit_tax" -> COL_PROFIT_TAX
      [] h = "property_tax" -> COL_PROPERTY_TAX
      [] h = "land_tax_1" -> COL_LAND_TAX
      [] h = "ndfl" -> COL_NDFL
      [] h = "transport_tax" -> COL_TRANSPORT_TAX
      [] h = "other_taxes" -> COL_OTHER_TAXES
      [] h = "excise" -> COL_EXCISE
      [] h = "investments" -> COL_INVESTMENTS
      [] h = "export_volume" -> COL_EXPORT
      [] h = "property_summary" -> COL_PROPERTY_SUMMARY
      [] h = "cadastral_number_land" -> COL_CADASTRAL_LAND
      [] h = "land_area" -> COL_LAND_AREA
      [] h = "cadastral_number_building" -> COL_CADASTRAL_BUILDING
      [] h = "product_name" -> COL_PRODUCT_NAME
      [] h = "standardized_product" -> COL_STANDARDIZED_PRODUCT
      [] h = "product_kinds" -> COL_PRODUCT_TYPES
      [] h = "okpd2_codes" -> COL_OKPD2
      [] h = "product_types" -> COL_OKPD2 + 1
      [] h = "registry_development" -> COL_REGISTRY_DEVELOPMENT
      [] h = "industry_spark" -> COL_INDUSTRY_SPARK
      [] h = "moscow_fot_2" -> COL_MOSCOW_FOT_2
      [] h = "moscow_fot_3" -> COL_MOSCOW_FOT_3
      [] h = "avg_salary_moscow_2" -> COL_AVG_SALARY_MOSCOW_2
      [] h = "land_tax_2" -> COL_LAND_TAX_2
      [] OTHER -> -1

\* the first and the last year the header row has for a text that ends
\* with a year
FirstHeaderYear(h) ==
    IF h = "investments" THEN FIRST_INVESTMENT_YEAR
    ELSE IF h = "export_volume" THEN FIRST_EXPORT_YEAR
    ELSE FIRST_YEAR

LastHeaderYear(h) ==
    IF HeaderColumn(h) >= COL_TOTAL_TAXES /\ HeaderColumn(h) < COL_INVESTMENTS
    THEN LAST_TAX_YEAR
    ELSE IF HeaderColumn(h) >= COL_MOSCOW_FOT_2 THEN FIRST_YEAR
    ELSE LAST_METRIC_YEAR

\* the column whose header is hdr; -1 when the header row has no such header
ColumnOf(hdr) ==
    IF HeaderColumn(hdr.h) < 0 THEN -1
    ELSE IF hdr.y = 0 THEN HeaderColumn(hdr.h)
    ELSE IF hdr.y >= FirstHeaderYear(hdr.h) /\ hdr.y <= LastHeaderYear(hdr.h)
         THEN HeaderColumn(hdr.h) + (hdr.y - FirstHeaderYear(hdr.h))
    ELSE -1

\* data = dict(zip(headers, row)): the header row is as wide as the sheet
\* and its headers are distinct, so the dict is the row read by header
DictZip(row) == row

\* data.get(header): None for a header the sheet lacks
DataGet(data, hdr) ==
    IF ColumnOf(hdr) \in DOMAIN data THEN data[ColumnOf(hdr)] ELSE None

\* the inline conversion of a numeric cell: empty gives None, a value that
\* float() rejects raises ValueError naming the column
FloatV1(val) ==
    IF val = None \/ val = Str(<<>>) THEN None
    ELSE IF IsRaised(PyFloat(val)) THEN Raised("ValueError")
    ELSE PyFloat(val)

\* parse_float(value, column_name): the same conversion as a function
parse_float(value, column_name) ==
    IF value = None \/ value = Str(<<>>) THEN None
    ELSE IF IsRaised(PyFloat(value))
         THEN (IF column_name # "" THEN Raised("ValueError") ELSE None)
    ELSE PyFloat(value)

\* the inline conversion of an employee count: int(float(val)) if val else
\* None, with the check against the INTEGER range
IntV1(val) ==
    IF val = None \/ val = Str(<<>>) THEN None
    ELSE IF ~Truthy(val) THEN None
    ELSE With(PyIntFloat(val), LAMBDA i :
            IF IsRaised(i)
            THEN (IF i.kind = "OverflowError" THEN i ELSE Raised("ValueError"))
            ELSE IF i.t = "big" THEN Raised("ValueError")
            ELSE IF i.n > INT4_MAX THEN Raised("ValueError")
            ELSE i)

\* the value of the last alias whose cell is not empty
RECURSIVE AliasFloatLast(_, _, _)
AliasFloatLast(data, aliases, year) ==
    IF aliases = <<>> THEN None
    ELSE With(DataGet(data, Hdr(aliases[Len(aliases)], year)), LAMBDA val :
            IF val = None \/ val = Str(<<>>)
            THEN AliasFloatLast(data, SubSeq(aliases, 1, Len(aliases) - 1),
                                year)
            ELSE FloatV1(val))

\* the value of the first alias whose cell is not empty
RECURSIVE AliasFloatV1(_, _, _)
AliasFloatV1(data, aliases, year) ==
    IF aliases = <<>> THEN None
    ELSE With(DataGet(data, Hdr(Head(aliases), year)), LAMBDA val :
            IF val = None \/ val = Str(<<>>)
            THEN AliasFloatV1(data, Tail(aliases), year)
            ELSE FloatV1(val))

MetricV1(data, org_id, year) ==
    With([organization_id |-> org_id,
          year |-> year,
          revenue |-> FloatV1(DataGet(data, Hdr("revenue", year))),
          profit |-> FloatV1(DataGet(data, Hdr("profit", year))),
          total_employees |->
            IntV1(DataGet(data, Hdr("total_employees", year))),
          moscow_employees |->
            IntV1(DataGet(data, Hdr("moscow_employees", year))),
          total_fot |-> FloatV1(DataGet(data, Hdr("total_fot", year))),
          moscow_fot |->
            AliasFloatV1(data,
                <<"moscow_fot_1", "moscow_fot_2", "moscow_fot_3">>, year),
          avg_salary_total |->
            FloatV1(DataGet(data, Hdr("avg_salary_total", year))),
          avg_salary_moscow |->
            AliasFloatV1(data,
                <<"avg_salary_moscow_1", "avg_salary_moscow_2">>, year),
          investments |->
            IF year >= FIRST_INVESTMENT_YEAR
            THEN FloatV1(DataGet(data, Hdr("investments", year))) ELSE None,
          export_volume |->
            IF year >= FIRST_EXPORT_YEAR
            THEN FloatV1(DataGet(data, Hdr("export_volume", year)))
            ELSE None],
         LAMBDA m :
            RecordOrRaised(m,
                <<m.revenue, m.profit, m.total_employees, m.moscow_employees,
                  m.total_fot, m.moscow_fot, m.avg_salary_total,
                  m.avg_salary_moscow, m.investments, m.export_volume>>))

\* "Only add if there's some data"
HasMetricValueV1(m) == PyAny(<<m.revenue, m.profit, m.total_employees>>)

RECURSIVE MetricsLoopV1(_, _, _, _)
MetricsLoopV1(data, org_id, year, added) ==
    IF year > LAST_METRIC_YEAR THEN [added |-> added, exc |-> ""]
    ELSE With(MetricV1(data, org_id, year), LAMBDA m :
            IF IsRaised(m) THEN [added |-> added, exc |-> m.kind]
            ELSE MetricsLoopV1(data, org_id, year + 1,
                    IF HasMetricValueV1(m) THEN Append(added, m) ELSE added))

TaxV1(data, org_id, year) ==
    With([organization_id |-> org_id,
          year |-> year,
          total_taxes_moscow |->
            FloatV1(DataGet(data, Hdr("total_taxes_moscow", year))),
          profit_tax |-> FloatV1(DataGet(data, Hdr("profit_tax", year))),
          property_tax |-> FloatV1(DataGet(data, Hdr("property_tax", year))),
          land_tax |->
            AliasFloatV1(data, <<"land_tax_1", "land_tax_2">>, year),
          ndfl |-> FloatV1(DataGet(data, Hdr("ndfl", year))),
          transport_tax |->
            FloatV1(DataGet(data, Hdr("transport_tax", year))),
          other_taxes |-> FloatV1(DataGet(data, Hdr("other_taxes", year))),
          excise |-> FloatV1(DataGet(data, Hdr("excise", year)))],
         LAMBDA t :
            RecordOrRaised(t,
                <<t.total_taxes_moscow, t.profit_tax, t.property_tax,
                  t.land_tax, t.ndfl, t.transport_tax, t.other_taxes,
                  t.excise>>))

HasTaxValueV1(t) == PyAny(<<t.total_taxes_moscow, t.profit_tax, t.property_tax>>)

RECURSIVE TaxesLoopV1(_, _, _, _)
TaxesLoopV1(data, org_id, year, added) ==
    IF year > LAST_TAX_YEAR THEN [added |-> added, exc |-> ""]
    ELSE With(TaxV1(data, org_id, year), LAMBDA t :
            IF IsRaised(t) THEN [added |-> added, exc |-> t.kind]
            ELSE TaxesLoopV1(data, org_id, year + 1,
                    IF HasTaxValueV1(t) THEN Append(added, t) ELSE added))

\* value[:k] of a cell value: only a text can be sliced
PySlice(v, k) ==
    IF v.t = "str"
    THEN Str(IF Len(v.s) > k THEN SubSeq(v.s, 1, k) ELSE v.s)
    ELSE Raised("TypeError")

\* Organization(...) of the header-driven importer: the cell values as read
NewOrgV1(data, inn) ==
    With(PySlice(DataGet(data, Hdr("name", 0)), 500), LAMBDA name :
        IF IsRaised(name) THEN name
        ELSE [id |-> 0,
              inn |-> inn,
              name |-> name,
              legal_address |-> DataGet(data, Hdr("legal_address", 0)),
              main_okved |-> DataGet(data, Hdr("main_okved", 0)),
              company_size |-> DataGet(data, Hdr("company_size", 0)),
              phone |-> DataGet(data, Hdr("phone", 0))])

\* the OrganizationAssets object, added when the row has a cadastral number
AssetsV1(s, data, org_id, land_area) ==
    IF PyAny(<<DataGet(data, Hdr("cadastral_number_land", 0)),
               DataGet(data, Hdr("cadastral_number_building", 0))>>)
    THEN [s EXCEPT !.pending.assets = Append(@,
            [organization_id |-> org_id,
             property_summary |-> DataGet(data, Hdr("property_summary", 0)),
             cadastral_number_land |->
                DataGet(data, Hdr("cadastral_number_land", 0)),
             land_area |-> land_area,
             cadastral_number_building |->
                DataGet(data, Hdr("cadastral_number_building", 0))])]
    ELSE s

\* the OrganizationProducts object, added when the row has a product name
ProductsV1(s, data, org_id) ==
    IF Truthy(DataGet(data, Hdr("product_name", 0)))
    THEN [s EXCEPT !.pending.products = Append(@,
            [organization_id |-> org_id,
             product_name |-> DataGet(data, Hdr("product_name", 0)),
             standardized_product |->
                IF Truthy(DataGet(data, Hdr("standardized_product", 0)))
                THEN DataGet(data, Hdr("standardized_product", 0))
                ELSE DataGet(data, Hdr("product_kinds", 0)),
             product_types |-> DataGet(data, Hdr("product_types", 0)),
             okpd2_codes |-> DataGet(data, Hdr("okpd2_codes", 0))])]
    ELSE s

\* the OrganizationMeta object, added for every row
MetaV1(s, data, org_id) ==
    [s EXCEPT !.pending.meta = Append(@,
        [organization_id |-> org_id,
         registry_development |->
            DataGet(data, Hdr("registry_development", 0)),
         industry_spark |-> DataGet(data, Hdr("industry_spark", 0))])]

\* the assets, products and meta objects and the end of the try block
TailV1(s, data, org_id) ==
    With(parse_float(DataGet(data, Hdr("land_area", 0)), "land_area"),
         LAMBDA land_area :
        IF IsRaised(land_area) THEN [s EXCEPT !.exc = land_area.kind]
        ELSE With(MetaV1(ProductsV1(AssetsV1(s, data, org_id, land_area),
                                    data, org_id),
                         data, org_id),
                  LAMBDA s3 :
                IF IsRaised(PySlice(DataGet(data, Hdr("name", 0)), 100))
                THEN [s3 EXCEPT !.exc = "TypeError"]
                ELSE CountAndCommit(s3)))

ChildrenV1(s, data, org_id) ==
    With(MetricsLoopV1(data, org_id, FIRST_YEAR, <<>>), LAMBDA ml :
        IF ml.exc # ""
        THEN [s EXCEPT !.pending.metrics = @ \o ml.added, !.exc = ml.exc]
        ELSE
        With(TaxesLoopV1(data, org_id, FIRST_YEAR, <<>>), LAMBDA tl :
            IF tl.exc # ""
            THEN [s EXCEPT !.pending.metrics = @ \o ml.added,
                           !.pending.taxes = @ \o tl.added,
                           !.exc = tl.exc]
            ELSE TailV1([s EXCEPT !.pending.metrics = @ \o ml.added,
                                  !.pending.taxes = @ \o tl.added],
                        data, org_id)))

\* the try block of one row
TryRowV1(s, data) ==
    With(Str(Strip(PyStr(DataGet(data, Hdr("inn", 0))))), LAMBDA inn :
        IF ~Truthy(DataGet(data, Hdr("inn", 0))) \/ ~Truthy(inn)
        THEN [s EXCEPT !.rows_skipped = @ + 1]
        ELSE IF s.sess # "active"
             THEN [s EXCEPT !.exc = "PendingRollbackError"]
        ELSE
        With(QueryOrgByInn(s.tx, inn), LAMBDA existing_org :
            IF existing_org # None
            THEN ChildrenV1([s EXCEPT !.organizations_updated = @ + 1],
                            data, existing_org.id)
            ELSE With(NewOrgV1(data, inn), LAMBDA org :
                    IF IsRaised(org) THEN [s EXCEPT !.exc = org.kind]
                    ELSE With(Flush([s EXCEPT !.pending.orgs = Append(@, org)]),
                              LAMBDA f :
                            IF f.exc # "" THEN f
                            ELSE ChildrenV1(
                                    [f EXCEPT !.organizations_new = @ + 1],
                                    data, f.nextId - 1)))))

\* the except block: the readable error is recorded and the row is also
\* counted as skipped
ExceptRowV1(s, data, row_idx) ==
    IF s.exc = "" THEN s
    ELSE [s EXCEPT
            !.errors = Append(@,
                [row |-> row_idx,
                 inn |-> DataGet(data, Hdr("inn", 0)),
                 name |-> DataGet(data, Hdr("name", 0)),
                 error |-> s.exc]),
            !.rows_skipped = @ + 1,
            !.exc = ""]

RowV1(s, data, row_idx) == ExceptRowV1(TryRowV1(s, data), data, row_idx)

(***************************************************************************)
(* The inputs of the model                                                 *)
(***************************************************************************)
\* the largest number of data rows the uploaded workbooks have together
MaxRows == 3
\* the largest number of workbooks uploaded
MaxRuns == 2

INN_A == <<"7", "7", "0", "6", "9", "0", "1", "2", "3", "4">>
INN_B == <<"5", "0", "0", "1", "0", "0", "7", "3", "2", "2", "5", "9">>
NAME_1 == <<"Z", "I", "L">>
NAME_2 == <<"G", "A", "Z">>
ADDRESS_1 == <<"M", "s", "k">>
ADDRESS_2 == <<"K", "l", "g">>

\* the width of a sheet with every column of the layout: row[208] is the
\* last cell the importer reads
FullWidth == 209
Widths == {FullWidth}

\* the width of a sheet that has the other spellings of the headers as well
AliasWidth == COL_LAND_TAX_2 + 1

\* The populated cells of the rows a workbook of the model is built from:
\* 1  organization A with revenue and head count of 2017 given as texts,
\*    a tax of 2024, a land plot, a product and a registry note
\* 2  organization A again (its tax identifier typed with blanks around it),
\*    other descriptive fields, revenue of 2018 and investments of 2021
\* 3  organization B with a non-numeric text in the revenue cell of 2019
\* 4  organization B without a name
\* 5  a row without a tax identifier
\* 6  organization B with "inf" in the head-count cell of 2020
\* 7  a row whose tax identifier cell holds blanks only
\* 8  organization A with a head count of 2147483648 in 2017
\* 9  organization B with a head count of 2147483647 in 2017
\* 10 a row with nothing but the tax identifier of organization A, the
\*    revenue 645670 of 2017 and the head count 223 of 2017
\* 11 organization A with another revenue of 2017 and other taxes of 2024
RowCells(kind) ==
    CASE kind = 1 ->
            (COL_INN :> Str(INN_A)) @@ (COL_NAME :> Str(NAME_1))
            @@ (COL_LEGAL_ADDRESS :> Str(ADDRESS_1))
            @@ (COL_PHONE :> Num(100))
            @@ (COL_REVENUE :> Str(<<"6", "4", "5", "6", "7", "0">>))
            @@ (COL_TOTAL_EMPLOYEES :> Str(<<"2", "2", "3">>))
            @@ (COL_TOTAL_TAXES + 7 :> Num(15))
            @@ (COL_CADASTRAL_LAND :> Str(<<"7", "7", ":", "1">>))
            @@ (COL_PRODUCT_NAME :> Str(<<"c", "a", "r">>))
            @@ (COL_REGISTRY_DEVELOPMENT :> Str(<<"o", "k">>))
      [] kind = 2 ->
            (COL_INN :> Str(<<" ">> \o INN_A \o <<" ">>))
            @@ (COL_NAME :> Str(NAME_2))
            @@ (COL_LEGAL_ADDRESS :> Str(ADDRESS_2))
            @@ (COL_REVENUE + 1 :> Num(7))
            @@ (COL_PROFIT_TAX + 1 :> Num(2))
            @@ (COL_INVESTMENTS :> Num(3))
      [] kind = 3 ->
            (COL_INN :> Str(INN_B)) @@ (COL_NAME :> Str(NAME_1))
            @@ (COL_REVENUE + 2 :> Str(<<"a", "b", "c">>))
            @@ (COL_PROFIT + 2 :> Num(5))
      [] kind = 4 ->
            (COL_INN :> Str(INN_B)) @@ (COL_REVENUE :> Num(1))
      [] kind = 5 ->
            (COL_NAME :> Str(NAME_1)) @@ (COL_REVENUE :> Num(9))
      [] kind = 7 ->
            (COL_INN :> Str(<<" ", " ">>)) @@ (COL_NAME :> Str(NAME_2))
            @@ (COL_REVENUE :> Num(8)) @@ (COL_TOTAL_TAXES :> Num(6))
            @@ (COL_CADASTRAL_LAND :> Str(<<"7", "7", ":", "2">>))
            @@ (COL_PRODUCT_NAME :> Str(<<"v", "a", "n">>))
      [] kind = 8 ->
            (COL_INN :> Str(INN_A)) @@ (COL_NAME :> Str(NAME_1))
            @@ (COL_REVENUE :> Num(2))
            @@ (COL_TOTAL_EMPLOYEES :>
                    Big(<<"2", "1", "4", "7", "4", "8", "3", "6", "4", "8">>))
      [] kind = 9 ->
            (COL_INN :> Str(INN_B)) @@ (COL_NAME :> Str(NAME_2))
            @@ (COL_TOTAL_EMPLOYEES :> Num(INT4_MAX))
      [] kind = 10 ->
            (COL_INN :> Str(INN_A)) @@ (COL_REVENUE :> Num(645670))
            @@ (COL_TOTAL_EMPLOYEES :> Num(223))
      [] kind = 6 ->
            (COL_INN :> Str(INN_B)) @@ (COL_NAME :> Str(NAME_2))
            @@ (COL_REVENUE :> Num(4))
            @@ (COL_TOTAL_EMPLOYEES + 3 :> Str(<<"i", "n", "f">>))
      [] kind = 11 ->
            (COL_INN :> Str(INN_A)) @@ (COL_NAME :> Str(NAME_1))
            @@ (COL_REVENUE :> Num(9)) @@ (COL_TOTAL_TAXES + 7 :> Num(4))
      [] kind = 12 ->
            (COL_INN :> Str(<<"7", "7", "A">>)) @@ (COL_NAME :> Str(NAME_1))
            @@ (COL_REVENUE :> Num(1))
      [] kind = 13 ->
            (COL_INN :> Num(77)) @@ (COL_NAME :> Str(NAME_2))
      [] kind = 15 ->
            (COL_INN :> Str(INN_A)) @@ (COL_NAME :> Str(NAME_1))
            @@ (COL_REVENUE :> Num(1)) @@ (COL_TOTAL_TAXES :> Num(1))
            @@ (COL_MOSCOW_FOT_2 :> Num(5)) @@ (COL_MOSCOW_FOT_3 :> Num(7))
            @@ (COL_AVG_SALARY_MOSCOW :> Str(<<"3">>))
            @@ (COL_AVG_SALARY_MOSCOW_2 :> Num(4))
            @@ (COL_LAND_TAX :> Str(<<>>)) @@ (COL_LAND_TAX_2 :> Num(8))
      [] kind = 16 ->
            (COL_INN :> Str(INN_B)) @@ (COL_NAME :> Str(NAME_2))
            @@ (COL_REVENUE :> Num(1)) @@ (COL_TOTAL_TAXES :> Num(1))
            @@ (COL_MOSCOW_FOT :> Num(0)) @@ (COL_MOSCOW_FOT_2 :> Num(5))
            @@ (COL_AVG_SALARY_MOSCOW_2 :> Num(4))
      [] kind = 17 ->
            (COL_INN :> Str(INN_A)) @@ (COL_NAME :> Str(NAME_1))
            @@ (COL_REVENUE :> Num(1)) @@ (COL_TOTAL_TAXES :> Num(1))
            @@ (COL_MOSCOW_FOT :> Str(<<"a", "b", "c">>))
            @@ (COL_MOSCOW_FOT_2 :> Num(5))
      [] kind = 14 ->
            (COL_INN :> Str(INN_B)) @@ (COL_NAME :> Str(NAME_1))
            @@ (COL_REVENUE :> Num(6)) @@ (COL_REVENUE + 3 :> Num(0))
            @@ (COL_TOTAL_TAXES + 3 :> Num(0))
      [] OTHER -> <<>>

\* the rows the workbooks of the uploads are built from
RowKinds == 1..6

\* the rows the workbooks are built from when single cells are looked at
CellKinds == {1, 5, 7, 8, 9, 10}

\* the rows the workbooks are built from when the store is exported
ExportKinds == {1, 2, 11}

\* the rows the workbooks are built from when tax identifiers are looked at
InnKinds == {1, 3, 12, 13}

\* the rows the workbooks are built from when the records of the years are
\* looked at
YearKinds == {2, 14}

\* the rows the workbooks are built from when the spellings of the headers
\* are looked at
AliasKinds == {15, 16, 17}

\* the row of a sheet of the given width: the populated cells that fit,
\* every other cell empty
RowOf(kind, width) ==
    [c \in 0..(width - 1) |->
        IF c \in DOMAIN RowCells(kind) THEN RowCells(kind)[c] ELSE None]

\* the rows of the model's sheets as openpyxl yields them
SheetRows ==
    [kind \in RowKinds \cup CellKinds \cup ExportKinds \cup InnKinds
               \cup YearKinds \cup AliasKinds,
     width \in Widths \cup {AliasWidth} |-> RowOf(kind, width)]

(***************************************************************************)
(* State                                                                   *)
(***************************************************************************)
VARIABLES
    db,         \* the committed store
    tx,         \* the store as the session's open transaction sees it
    pending,    \* objects added to the session and not flushed
    sess,       \* "active" or "deactive"
    nextId,     \* the next value of the organizations id sequence
    pc,         \* "idle" or "running" (inside the row loop of a run)
    variant,    \* the importer of the run: "v2" positional, "v1" by header
    width,      \* the width of the run's sheet
    wb,         \* the rows read so far: [kind, status] in sheet order
    organizations_new,
    organizations_updated,
    rows_processed,
    rows_skipped,
    errors,
    outcome,    \* of the last finished run: "none", "returned" or "raised"
    startDb,    \* the committed store when the run began
    runs,       \* the number of workbooks uploaded
    fed,        \* the number of data rows those workbooks had so far
    feed,       \* the rows still to come when a workbook is imported again
    ref,        \* the first import of that workbook: its rows and its store
    exported,   \* the last workbook the exporter built: its data rows, and
                \* the store they were read from
    temp_file,  \* TRUE while the upload's file exists in the uploads folder
    filename    \* the file name of the last upload request

vars ==
    <<db, tx, pending, sess, nextId, pc, variant, width, wb,
      organizations_new, organizations_updated, rows_processed, rows_skipped,
      errors, outcome, startDb, runs, fed, feed, ref, exported, temp_file,
      filename>>

NoRef == [wb |-> <<>>, width |-> 0, db |-> EmptyStore, outcome |-> "none"]

\* no workbook was exported yet
NoExport == [rows |-> <<>>, store |-> EmptyStore]

Init ==
    /\ db = EmptyStore
    /\ tx = EmptyStore
    /\ pending = EmptyPending
    /\ sess = "active"
    /\ nextId = 1
    /\ pc = "idle"
    /\ variant = "v2"
    /\ width = FullWidth
    /\ wb = <<>>
    /\ organizations_new = 0
    /\ organizations_updated = 0
    /\ rows_processed = 0
    /\ rows_skipped = 0
    /\ errors = <<>>
    /\ outcome = "none"
    /\ startDb = EmptyStore
    /\ runs = 0
    /\ fed = 0
    /\ feed = <<>>
    /\ ref = NoRef
    /\ exported = NoExport
    /\ temp_file = FALSE
    /\ filename = <<>>

\* the run record the row operators work on
RunRecord ==
    [db |-> db, tx |-> tx, pending |-> pending, sess |-> sess,
     nextId |-> nextId, exc |-> "",
     organizations_new |-> organizations_new,
     organizations_updated |-> organizations_updated,
     rows_processed |-> rows_processed, rows_skipped |-> rows_skipped,
     errors |-> errors]

\* what became of a row, read off the counters
RowStatus(before, after) ==
    IF Len(after.errors) > Len(before.errors) THEN "failed"
    ELSE IF after.rows_skipped > before.rows_skipped THEN "skipped"
    ELSE IF after.organizations_new > before.organizations_new THEN "new"
    ELSE "updated"

\* the file stays where it is
UnlinkFails(exists) == exists

\* file_path.unlink() in the finally clause of upload_file: the file is gone
Unlink(exists) == FALSE

\* get_db(): SessionLocal() opens a session on the committed store
OpenSession ==
    /\ tx' = db
    /\ pending' = EmptyPending
    /\ sess' = "active"

\* process_excel_file is entered: the workbook is loaded and the counters
\* are set to zero
BeginRun(v, w) ==
    /\ pc' = "running"
    /\ variant' = v
    /\ width' = w
    /\ wb' = <<>>
    /\ organizations_new' = 0
    /\ organizations_updated' = 0
    /\ rows_processed' = 0
    /\ rows_skipped' = 0
    /\ errors' = <<>>
    /\ outcome' = "none"
    /\ startDb' = db
    /\ OpenSession
    /\ temp_file' = TRUE
    /\ UNCHANGED <<db, nextId, exported>>

\* a request to the upload endpoint starts a run on a new workbook
StartRun(v, w) ==
    /\ pc = "idle"
    /\ runs < MaxRuns
    /\ BeginRun(v, w)
    /\ runs' = runs + 1
    /\ feed' = <<>>
    /\ ref' = NoRef
    /\ UNCHANGED <<fed, filename>>

\* the loop body of the run's importer on a row of the given kind
LoopBody(kind, row) ==
    /\ \E r \in {IF variant = "v2"
                 THEN RowV2(RunRecord, row, Len(wb) + 2)
                 ELSE RowV1(RunRecord, DictZip(row), Len(wb) + 2)} :
           /\ db' = r.db
           /\ tx' = r.tx
           /\ pending' = r.pending
           /\ sess' = r.sess
           /\ nextId' = r.nextId
           /\ organizations_new' = r.organizations_new
           /\ organizations_updated' = r.organizations_updated
           /\ rows_processed' = r.rows_processed
           /\ rows_skipped' = r.rows_skipped
           /\ errors' = r.errors
           /\ wb' = Append(wb, [kind |-> kind,
                                status |-> RowStatus(RunRecord, r)])
    /\ UNCHANGED <<pc, variant, width, outcome, startDb, runs, ref, exported,
                   temp_file, filename>>

\* the next data row of the sheet goes through the loop body
ProcessRow(kind) ==
    /\ pc = "running"
    /\ IF ref = NoRef
       THEN fed < MaxRows /\ fed' = fed + 1 /\ feed' = feed
       ELSE feed # <<>> /\ kind = Head(feed) /\ feed' = Tail(feed)
            /\ fed' = fed
    /\ LoopBody(kind, SheetRows[kind, width])

\* the sheet has no more rows: "Final commit", then the summary is returned;
\* a commit that raises leaves process_excel_file with the exception.  The
\* request ends and get_db() closes the session.
FinishRun ==
    /\ pc = "running"
    /\ ref # NoRef => feed = <<>>
    /\ \E c \in {Commit(RunRecord)} :
           /\ db' = c.db
           /\ nextId' = c.nextId
           /\ outcome' = IF c.exc = "" THEN "returned" ELSE "raised"
    /\ pc' = "idle"
    /\ tx' = db'
    /\ pending' = EmptyPending
    /\ sess' = "active"
    /\ temp_file' = Unlink(temp_file)
    /\ UNCHANGED <<variant, width, wb, organizations_new,
                   organizations_updated, rows_processed, rows_skipped,
                   errors, startDb, runs, fed, feed, ref, exported,
                   filename>>

\* the workbook of the run that just returned is uploaded once more
StartReimport ==
    /\ pc = "idle"
    /\ outcome # "none"
    /\ ref = NoRef
    /\ wb # <<>>
    /\ BeginRun(variant, width)
    /\ feed' = [i \in 1..Len(wb) |-> wb[i].kind]
    /\ ref' = [wb |-> wb, width |-> width, db |-> db, outcome |-> outcome]
    /\ UNCHANGED <<runs, fed, filename>>

\* POST /api/organizations: an organization is created by hand
CreateOrganization(inn, name) ==
    /\ pc = "idle"
    /\ QueryOrgByInn(db, inn) = None
    /\ LET new_org == [id |-> 0, inn |-> inn, name |-> name,
                       legal_address |-> None, main_okved |-> None,
                       company_size |-> None, phone |-> None]
           c == Commit([RunRecord EXCEPT
                           !.tx = db, !.pending = EmptyPending,
                           !.sess = "active",
                           !.pending.orgs = <<new_org>>])
       IN  /\ db' = c.db
           /\ nextId' = c.nextId
    /\ tx' = db'
    /\ wb' = <<>>
    /\ outcome' = "none"
    /\ ref' = NoRef
    /\ UNCHANGED <<pending, sess, pc, variant, width, organizations_new,
                   organizations_updated, rows_processed, rows_skipped,
                   errors, startDb, runs, fed, feed, exported, temp_file,
                   filename>>

Next ==
    \/ \E v \in {"v1", "v2"}, w \in Widths : StartRun(v, w)
    \/ \E kind \in RowKinds : ProcessRow(kind)
    \/ FinishRun
    \/ \E inn \in {Str(INN_A), Str(INN_B)} : CreateOrganization(inn, Str(NAME_1))

Spec == Init /\ [][Next]_vars

\* uploads, each of which may be followed by a second upload of the same
\* workbook
NextReimport ==
    \/ \E v \in {"v1", "v2"}, w \in Widths : StartRun(v, w)
    \/ \E kind \in RowKinds : ProcessRow(kind)
    \/ FinishRun
    \/ StartReimport

SpecReimport == Init /\ [][NextReimport]_vars

\* uploads of workbooks built from the rows of CellKinds
NextCells ==
    \/ \E v \in {"v1", "v2"}, w \in Widths : StartRun(v, w)
    \/ \E kind \in CellKinds : ProcessRow(kind)
    \/ FinishRun

SpecCells == Init /\ [][NextCells]_vars

(***************************************************************************)
(* Vocabulary of the properties                                            *)
(***************************************************************************)
\* the tax identifier a row of the model carries, None when it has none
KindInn(kind) ==
    CASE kind \in {1, 2, 8, 10, 11, 15, 17} -> Str(INN_A)
      [] kind \in {3, 4, 6, 9, 14, 16} -> Str(INN_B)
      [] OTHER -> None

\* a run has ended with the given outcome and nothing touched the store since
Done(out) == pc = "idle" /\ outcome = out

\* the rows of the run's workbook that carry the tax identifier
RowsOfInn(inn) == {i \in 1..Len(wb) : KindInn(wb[i].kind) = inn}

RowsWithInn == {i \in 1..Len(wb) : KindInn(wb[i].kind) # None}

\* the last row of the run's workbook that carries the tax identifier
LastRowOfInn(inn) ==
    CHOOSE i \in RowsOfInn(inn) : \A j \in RowsOfInn(inn) : j <= i

\* the rows of a child table that belong to the organization
ChildrenOf(store, table, org_id) ==
    SelectSeq(store[table], LAMBDA r : r.organization_id = org_id)

\* a sequence as a bag: each value with the number of times it occurs
BagOf(seq) ==
    [x \in {seq[i] : i \in DOMAIN seq} |->
        Cardinality({i \in DOMAIN seq : seq[i] = x})]

\* what the store holds for a tax identifier: the organization and its
\* child rows
InnView(store, inn) ==
    LET o == QueryOrgByInn(store, inn)
    IN  IF o = None THEN [org |-> None]
        ELSE [org |-> o,
              metrics |-> ChildrenOf(store, "metrics", o.id),
              taxes |-> ChildrenOf(store, "taxes", o.id),
              assets |-> ChildrenOf(store, "assets", o.id),
              products |-> ChildrenOf(store, "products", o.id),
              meta |-> ChildrenOf(store, "meta", o.id)]

\* a store with each child table as a bag
StoreView(store) ==
    [orgs |-> store.orgs,
     metrics |-> BagOf(store.metrics), taxes |-> BagOf(store.taxes),
     assets |-> BagOf(store.assets), products |-> BagOf(store.products),
     meta |-> BagOf(store.meta)]

\* the year records the run's importer decodes from a row of the given kind
DecodedMetrics(kind, org_id) ==
    IF variant = "v2"
    THEN MetricsLoopV2(SheetRows[kind, width], org_id, 0, <<>>).added
    ELSE MetricsLoopV1(DictZip(SheetRows[kind, width]), org_id,
                       FIRST_YEAR, <<>>).added

DecodedTaxes(kind, org_id) ==
    IF variant = "v2"
    THEN TaxesLoopV2(SheetRows[kind, width], org_id, 0, <<>>).added
    ELSE TaxesLoopV1(DictZip(SheetRows[kind, width]), org_id,
                     FIRST_YEAR, <<>>).added

\* the rows of the model with a non-numeric text in a numeric column, and
\* the well-formed rows
NonNumericKinds == {3}
WellFormedKinds == {1, 2, 5}

(***************************************************************************)
(* Properties                                                              *)
(***************************************************************************)
\* C1: when exactly one row k of the workbook holds a non-numeric text in a
\* numeric column and every other row is well-formed, the run reports
\* exactly one failed row, row k; created plus updated is the number of
\* rows with a tax identifier minus one; no row after k fails.
C1_OneFailedRow ==
    \A k \in 1..Len(wb) :
        (/\ Done("returned")
         /\ wb[k].kind \in NonNumericKinds
         /\ \A i \in 1..Len(wb) \ {k} : wb[i].kind \in WellFormedKinds)
        => /\ Len(errors) = 1
           /\ errors[1].row = k + 1
           /\ organizations_new + organizations_updated
                = Cardinality(RowsWithInn) - 1
           /\ \A i \in (k + 1)..Len(wb) : wb[i].status # "failed"

\* C2: in the positional importer a row that fails leaves none of its
\* writes behind: when the run has ended, the store holds for the row's tax
\* identifier what it held before the row (stated for a failed row that is
\* the only row of the workbook with its tax identifier, so that the store
\* before the row is the store before the run).
C2_FailedRowLeavesNoWrites ==
    \A k \in 1..Len(wb) :
        (/\ pc = "idle" /\ outcome # "none"
         /\ variant = "v2"
         /\ wb[k].status = "failed"
         /\ RowsOfInn(KindInn(wb[k].kind)) = {k})
        => InnView(db, KindInn(wb[k].kind))
             = InnView(startDb, KindInn(wb[k].kind))

\* C3: in the positional importer, when the flush of the new organization
\* of row k fails on a constraint (row k has no name) and the other rows
\* are well-formed, only row k is recorded as failed, the run returns, and
\* every other row with a tax identifier has its organization in the store.
C3_FlushFailureFailsOneRow ==
    \A k \in 1..Len(wb) :
        (/\ pc = "idle" /\ outcome # "none"
         /\ variant = "v2"
         /\ wb[k].kind = 4 /\ wb[k].status = "failed"
         /\ \A i \in 1..Len(wb) \ {k} : wb[i].kind \in WellFormedKinds)
        => /\ outcome = "returned"
           /\ Len(errors) = 1
           /\ \A i \in RowsWithInn \ {k} :
                 QueryOrgByInn(db, KindInn(wb[i].kind)) # None

\* C4: a run returns its summary whatever rows failed; a workbook without
\* data rows, or with only rows without a tax identifier, gives zero
\* processed, zero created, zero updated and leaves the store as it was.
C4_RunReturnsSummary ==
    (pc = "idle" /\ outcome # "none")
    => /\ outcome = "returned"
       /\ RowsWithInn = {}
            => /\ rows_processed = 0
               /\ organizations_new = 0
               /\ organizations_updated = 0
               /\ db = startDb

\* C5: when a workbook whose rows all went through is imported a second time
\* by the positional importer, the store after the second run holds the
\* organizations and child rows it held after the first, no organization
\* is reported created and every row with a tax identifier is reported
\* updated.
C5_ReimportIdempotent ==
    (/\ Done("returned")
     /\ variant = "v2"
     /\ ref # NoRef /\ ref.outcome = "returned"
     /\ \A i \in 1..Len(ref.wb) : ref.wb[i].status # "failed")
    => /\ StoreView(db) = StoreView(ref.db)
       /\ organizations_new = 0
       /\ organizations_updated = Cardinality(RowsWithInn)

\* C6: in the positional importer, once a row that matched an existing
\* organization is committed, the MetricYear and TaxYear records of the
\* organization are the ones decoded from that row (stated for the last
\* row of the workbook with the tax identifier).
C6_UpdateReplacesYearRecordsV2 ==
    \A inn \in {Str(INN_A), Str(INN_B)} :
        (/\ Done("returned")
         /\ variant = "v2"
         /\ RowsOfInn(inn) # {}
         /\ wb[LastRowOfInn(inn)].status = "updated")
        => LET org == QueryOrgByInn(db, inn)
               kind == wb[LastRowOfInn(inn)].kind
           IN  /\ org # None
               /\ ChildrenOf(db, "metrics", org.id)
                    = DecodedMetrics(kind, org.id)
               /\ ChildrenOf(db, "taxes", org.id)
                    = DecodedTaxes(kind, org.id)

\* C7: the same for the header-driven importer: the year records of an
\* updated organization are the ones decoded from the row, so their number
\* does not grow when the row is imported again.
C7_UpdateReplacesYearRecordsV1 ==
    \A inn \in {Str(INN_A), Str(INN_B)} :
        (/\ Done("returned")
         /\ variant = "v1"
         /\ RowsOfInn(inn) # {}
         /\ wb[LastRowOfInn(inn)].status = "updated")
        => LET org == QueryOrgByInn(db, inn)
               kind == wb[LastRowOfInn(inn)].kind
           IN  /\ org # None
               /\ BagOf(ChildrenOf(db, "metrics", org.id))
                    = BagOf(DecodedMetrics(kind, org.id))
               /\ BagOf(ChildrenOf(db, "taxes", org.id))
                    = BagOf(DecodedTaxes(kind, org.id))

\* C8: after a run of the positional importer on a store without year
\* records, every organization has at most one MetricYear record and at
\* most one TaxYear record per year, and each of them is a record decoded
\* from the last row of the workbook with the organization's tax
\* identifier.
C8_OneYearRecordPerYear ==
    (Done("returned") /\ variant = "v2" /\ runs = 1)
    => \A t \in {"metrics", "taxes"} :
         /\ \A i, j \in 1..Len(db[t]) :
               (/\ db[t][i].organization_id = db[t][j].organization_id
                /\ db[t][i].year = db[t][j].year) => i = j
         /\ \A i \in 1..Len(db[t]) : \A o \in db.orgs :
               (o.id = db[t][i].organization_id /\ RowsOfInn(o.inn) # {})
               => LET d == IF t = "metrics"
                           THEN DecodedMetrics(
                                   wb[LastRowOfInn(o.inn)].kind, o.id)
                           ELSE DecodedTaxes(
                                   wb[LastRowOfInn(o.inn)].kind, o.id)
                  IN  \E n \in 1..Len(d) : d[n] = db[t][i]

\* C9: no two organizations of the store, committed or inside the open
\* transaction, have the same tax identifier, and none has a null one; a
\* row whose tax identifier is that of an organization the store already
\* had when the run began, or of an organization an earlier row of the run
\* created or matched, is never counted as a created organization.
C9_InnUniqueAndNotNull ==
    /\ \A store \in {db, tx} :
          /\ \A o \in store.orgs : o.inn # None
          /\ \A o1, o2 \in store.orgs : o1.inn = o2.inn => o1 = o2
    /\ \A i \in 1..Len(wb) :
          wb[i].status = "new"
          => /\ QueryOrgByInn(startDb, KindInn(wb[i].kind)) = None
             /\ \A j \in 1..(i - 1) :
                   wb[j].status \in {"new", "updated"}
                   => KindInn(wb[j].kind) # KindInn(wb[i].kind)

\* a run in which a row matched the organization an earlier row created,
\* beside an organization created by hand, has ended
C9_Witness ==
    /\ Done("returned")
    /\ \E i, j \in 1..Len(wb) :
          /\ j < i
          /\ wb[j].status = "new" /\ wb[i].status = "updated"
          /\ KindInn(wb[j].kind) = KindInn(wb[i].kind)
    /\ Cardinality(db.orgs) = 2
    /\ Cardinality(startDb.orgs) = 1

\* C10: once a row that matched an existing organization is committed, the
\* descriptive fields of the organization are the values of that row
\* (stated for the last row of the workbook with the tax identifier).
C10_UpdateSetsDescriptiveFields ==
    \A inn \in {Str(INN_A), Str(INN_B)} :
        (/\ Done("returned")
         /\ RowsOfInn(inn) # {}
         /\ wb[LastRowOfInn(inn)].status = "updated")
        => LET org == QueryOrgByInn(db, inn)
               row == SheetRows[wb[LastRowOfInn(inn)].kind, width]
               from_row == IF variant = "v2" THEN NewOrgV2(row, inn)
                           ELSE NewOrgV1(DictZip(row), inn)
           IN  /\ org # None
               /\ [org EXCEPT !.id = 0] = from_row

C12_SkippedAndFailedCounts ==
    Done("returned")
    => /\ rows_skipped
            = Cardinality({i \in 1..Len(wb) : KindInn(wb[i].kind) = None})
       /\ Len(errors)
            = Cardinality({i \in 1..Len(wb) : wb[i].status = "failed"})

\* C13: a row whose head-count cell holds 2147483648 is recorded as failed and
\* no head count is stored for it, truncated or wrapped; a row whose cell
\* holds 2147483647, in a workbook whose other rows are well-formed, goes
\* through and its MetricYear record holds exactly 2147483647.
C13_EmployeeCountOverflow ==
    \A k \in 1..Len(wb) :
        (pc = "idle" /\ outcome # "none")
        => /\ wb[k].kind = 8
                => /\ wb[k].status = "failed"
                   /\ outcome = "returned"
                   /\ \A i \in 1..Len(db.metrics) :
                         db.metrics[i].total_employees = None
                         \/ \E j \in 1..Len(wb) :
                               /\ wb[j].kind # 8
                               /\ \E d \in DOMAIN DecodedMetrics(wb[j].kind, 0) :
                                     DecodedMetrics(wb[j].kind, 0)[d]
                                         .total_employees
                                       = db.metrics[i].total_employees
           /\ (/\ wb[k].kind = 9
               /\ \A i \in 1..Len(wb) \ {k} : wb[i].kind \in WellFormedKinds)
                => /\ wb[k].status \in {"new", "updated"}
                   /\ outcome = "returned"
                   /\ \E i \in 1..Len(db.metrics) :
                         /\ db.metrics[i].year = FIRST_YEAR
                         /\ db.metrics[i].total_employees = Num(INT4_MAX)

\* C14: every MetricYear record of the store has a year in 2017..2023 and
\* every TaxYear record a year in 2017..2024; a MetricYear record has an
\* investment amount only for 2021..2023 and an export volume only for
\* 2019..2023; and a number in the investment cell of a year of the range,
\* in the last row of a returned run for its tax identifier, is in the store
\* as the investment amount of that organization and year.
C14_YearRanges ==
    /\ \A i \in 1..Len(db.metrics) :
          /\ db.metrics[i].year \in FIRST_YEAR..LAST_METRIC_YEAR
          /\ db.metrics[i].investments # None
                => db.metrics[i].year >= FIRST_INVESTMENT_YEAR
          /\ db.metrics[i].export_volume # None
                => db.metrics[i].year >= FIRST_EXPORT_YEAR
    /\ \A i \in 1..Len(db.taxes) :
          db.taxes[i].year \in FIRST_YEAR..LAST_TAX_YEAR
    /\ \A inn \in {Str(INN_A), Str(INN_B)} :
       \A y \in FIRST_INVESTMENT_YEAR..LAST_METRIC_YEAR :
          (/\ Done("returned")
           /\ RowsOfInn(inn) # {}
           /\ wb[LastRowOfInn(inn)].status \in {"new", "updated"}
           /\ SheetRows[wb[LastRowOfInn(inn)].kind, width]
                 [COL_INVESTMENTS + (y - FIRST_INVESTMENT_YEAR)].t = "num")
          => \E i \in 1..Len(db.metrics) :
                /\ db.metrics[i].organization_id = QueryOrgByInn(db, inn).id
                /\ db.metrics[i].year = y
                /\ db.metrics[i].investments
                     = SheetRows[wb[LastRowOfInn(inn)].kind, width]
                          [COL_INVESTMENTS + (y - FIRST_INVESTMENT_YEAR)]

\* C15: a workbook whose one data row has nothing but a tax identifier, the
\* revenue of 2017 and the head count of 2017, imported into an empty store,
\* gives exactly one organization, with that tax identifier, and exactly one
\* MetricYear record, of 2017, with the revenue and the head count of the
\* row.
C15_SingleRowExample ==
    (/\ pc = "idle" /\ outcome # "none"
     /\ startDb = EmptyStore
     /\ Len(wb) = 1 /\ wb[1].kind = 10)
    => /\ outcome = "returned"
       /\ Cardinality(db.orgs) = 1
       /\ \A o \in db.orgs : o.inn = Str(INN_A)
       /\ Len(db.metrics) = 1
       /\ \A i \in 1..Len(db.metrics) :
             /\ db.metrics[i].year = FIRST_YEAR
             /\ db.metrics[i].revenue = Num(645670)
             /\ db.metrics[i].total_employees = Num(223)

(***************************************************************************)
(* The exporter: export_organizations_to_excel of excel_exporter.py.       *)
(*                                                                         *)
(* A header is the record Hdr(h, y) of the attribute the column shows and  *)
(* the year its text ends with; a cell of a data row is a value.  The      *)
(* attributes of an organization that the model does not carry are None.   *)
(***************************************************************************)
\* the empty text ""
EMPTY == Str(<<>>)

\* the texts of a yes/no cell (two and three Cyrillic letters in the source)
YES == Str(<<"D", "a">>)

NO == Str(<<"N", "e", "t">>)

\* value or ""
OrEmpty(value) == IF Truthy(value) THEN value ELSE EMPTY

\* the number of headers of the literal list the header row starts with
BASE_HEADERS == 47

\* list(range(first, last + 1))
YearRange(first, last) == [i \in 1..(last - first + 1) |-> first + (i - 1)]

years == YearRange(FIRST_YEAR, LAST_METRIC_YEAR)

tax_years == YearRange(FIRST_YEAR, LAST_TAX_YEAR)

investment_years == YearRange(FIRST_INVESTMENT_YEAR, LAST_METRIC_YEAR)

export_years == YearRange(FIRST_EXPORT_YEAR, LAST_METRIC_YEAR)

\* the attributes the loops over years walk, in the order of the loops
MetricFields ==
    <<"revenue", "profit", "total_employees", "moscow_employees",
      "total_fot", "moscow_fot", "avg_salary_total", "avg_salary_moscow">>

TaxFields ==
    <<"total_taxes_moscow", "profit_tax", "property_tax", "land_tax",
      "ndfl", "transport_tax", "other_taxes", "excise">>

\* one "for year in ...: headers.append(...)" loop after the other
RECURSIVE YearHeaders(_, _)
YearHeaders(fields, ys) ==
    IF fields = <<>> THEN <<>>
    ELSE [i \in 1..Len(ys) |-> Hdr(Head(fields), ys[i])]
         \o YearHeaders(Tail(fields), ys)

\* the header row
headers ==
    [i \in 1..BASE_HEADERS |-> Hdr("base", 0)]
    \o YearHeaders(MetricFields, years)
    \o YearHeaders(TaxFields, tax_years)
    \o YearHeaders(<<"investments">>, investment_years)
    \o YearHeaders(<<"export_volume">>, export_years)
    \o [i \in 1..13 |-> Hdr("assets", 0)]
    \o [i \in 1..12 |-> Hdr("products", 0)]
    \o [i \in 1..9 |-> Hdr("additional", 0)]

\* a sequence back to front
Reverse(seq) == [i \in 1..Len(seq) |-> seq[Len(seq) + 1 - i]]

\* db.query(Table).filter(Table.organization_id == org.id).all(): the query
\* has no ORDER BY, so the order of the rows is the server's choice; the
\* model takes the order of insertion and its reverse
QueryAll(store, table, org_id, reversed) ==
    IF reversed THEN Reverse(ChildrenOf(store, table, org_id))
    ELSE ChildrenOf(store, table, org_id)

\* ... .first(): None when the organization has no row in the table
QueryFirst(store, table, org_id, reversed) ==
    With(QueryAll(store, table, org_id, reversed), LAMBDA rows :
        IF rows = <<>> THEN None ELSE rows[1])

\* metrics_dict.get(year) after "metrics_dict[metric.year] = metric" for
\* every row of the query: the last row of the year, None without one
DictGet(rows, year) ==
    With({i \in DOMAIN rows : rows[i].year = year}, LAMBDA idx :
        IF idx = {} THEN None
        ELSE rows[CHOOSE i \in idx : \A j \in idx : j <= i])

\* record.field if record and record.field else ""
ValueOrEmpty(record, field) ==
    IF record = None THEN EMPTY
    ELSE IF Truthy(record[field]) THEN record[field]
    ELSE EMPTY

\* record.field if record else ""
AttrOrEmpty(record, field) ==
    IF record = None THEN EMPTY ELSE record[field]

\* "Da" if record and record.field else "Net"
YesNo(record, value) == IF record # None /\ Truthy(value) THEN YES ELSE NO

\* the cells of all attributes of a year next to each other
YearCellsByYear(rows, fields, ys) ==
    [k \in 1..(Len(fields) * Len(ys)) |->
        ValueOrEmpty(DictGet(rows, ys[((k - 1) \div Len(fields)) + 1]),
                     fields[((k - 1) % Len(fields)) + 1])]

\* one "for year in ...: row.append(...)" loop after the other
RECURSIVE YearCells(_, _, _)
YearCells(rows, fields, ys) ==
    IF fields = <<>> THEN <<>>
    ELSE [i \in 1..Len(ys) |-> ValueOrEmpty(DictGet(rows, ys[i]), Head(fields))]
         \o YearCells(rows, Tail(fields), ys)

\* the literal list the data row starts with
BaseCells(org, idx, meta) ==
    <<Num(idx),
      OrEmpty(org.inn),
      OrEmpty(org.name),
      EMPTY,    \* full_name
      EMPTY,    \* status_spark
      EMPTY,    \* status_internal
      EMPTY,    \* status_final
      EMPTY,    \* date_added
      OrEmpty(org.legal_address),
      EMPTY,    \* production_address
      EMPTY,    \* additional_address
      EMPTY,    \* main_industry
      EMPTY,    \* main_subindustry
      EMPTY,    \* extra_industry
      EMPTY,    \* extra_subindustry
      IF meta = None THEN EMPTY ELSE None,    \* meta.presentation_links
      OrEmpty(org.main_okved),
      EMPTY,    \* main_okved_name
      EMPTY,    \* prod_okved
      EMPTY,    \* prod_okved_name
      EMPTY,    \* company_info
      OrEmpty(org.company_size),
      EMPTY,    \* company_size_2022
      EMPTY,    \* size_by_employees
      EMPTY,    \* size_by_employees_2022
      EMPTY,    \* size_by_revenue
      EMPTY,    \* size_by_revenue_2022
      EMPTY,    \* registration_date
      EMPTY,    \* head_name
      EMPTY,    \* parent_org_name
      EMPTY,    \* parent_org_inn
      EMPTY,    \* parent_relation_type
      EMPTY,    \* head_contacts
      EMPTY,    \* head_email
      EMPTY,    \* employee_contact
      OrEmpty(org.phone),
      EMPTY,    \* emergency_contact
      EMPTY,    \* website
      EMPTY,    \* email
      EMPTY,    \* support_data
      EMPTY,    \* special_status
      EMPTY,    \* site_final
      YesNo(org, None),     \* got_moscow_support
      YesNo(org, None),     \* is_system_critical
      EMPTY,    \* msp_status
      EMPTY,
      EMPTY>>

\* "Property and assets"
AssetCells(assets) ==
    <<AttrOrEmpty(assets, "property_summary"),
      AttrOrEmpty(assets, "cadastral_number_land"),
      ValueOrEmpty(assets, "land_area"),
      IF assets = None THEN EMPTY ELSE None,    \* land_usage
      IF assets = None THEN EMPTY ELSE None,    \* land_ownership_type
      IF assets = None THEN EMPTY ELSE None,    \* land_owner
      AttrOrEmpty(assets, "cadastral_number_building"),
      EMPTY,                                    \* building_area
      IF assets = None THEN EMPTY ELSE None,    \* building_usage
      IF assets = None THEN EMPTY ELSE None,    \* building_type
      IF assets = None THEN EMPTY ELSE None,    \* building_ownership_type
      IF assets = None THEN EMPTY ELSE None,    \* building_owner
      EMPTY>>                                   \* production_area

\* "Products"
ProductCells(products) ==
    <<EMPTY,
      AttrOrEmpty(products, "standardized_product"),
      AttrOrEmpty(products, "product_name"),
      AttrOrEmpty(products, "okpd2_codes"),
      AttrOrEmpty(products, "product_types"),
      IF products = None THEN EMPTY ELSE None,  \* product_catalog
      YesNo(products, None),                    \* has_government_orders
      EMPTY,                                    \* capacity_usage
      YesNo(products, None),                    \* has_export
      EMPTY,                                    \* export_volume_last_year
      IF products = None THEN EMPTY ELSE None,  \* export_countries
      IF products = None THEN EMPTY ELSE None>> \* tnved_code

\* f"{meta.industry_spark or ''} / {meta.industry_directory or ''}"
IndustryCell(meta) ==
    IF meta = None THEN EMPTY
    ELSE Str(PyStr(OrEmpty(meta.industry_spark)) \o <<" ", "/", " ">>)

\* "Additional"
AdditionalCells(org, meta) ==
    <<AttrOrEmpty(meta, "registry_development"),
      IndustryCell(meta),
      EMPTY,    \* legal_address_coords
      EMPTY,    \* production_address_coords
      EMPTY,    \* additional_address_coords
      EMPTY,    \* coordinates_lat
      EMPTY,    \* coordinates_lon
      EMPTY,    \* district
      EMPTY>>   \* region

\* the data row of an organization as ws.append(row) receives it
ExportCells(store, org, idx, reversed) ==
    With(QueryAll(store, "metrics", org.id, reversed), LAMBDA metrics_rows :
    With(QueryFirst(store, "meta", org.id, reversed), LAMBDA meta :
        BaseCells(org, idx, meta)
        \o YearCells(metrics_rows, MetricFields, years)
        \o YearCells(QueryAll(store, "taxes", org.id, reversed),
                     TaxFields, tax_years)
        \o YearCells(metrics_rows, <<"investments">>, investment_years)
        \o YearCells(metrics_rows, <<"export_volume">>, export_years)
        \o AssetCells(QueryFirst(store, "assets", org.id, reversed))
        \o ProductCells(QueryFirst(store, "products", org.id, reversed))
        \o AdditionalCells(org, meta)))

\* the row as load_workbook yields it: columns are counted from zero and a
\* cell without a value reads None
SheetRow(cells) ==
    [c \in 0..(Len(cells) - 1) |->
        IF cells[c + 1] = EMPTY THEN None ELSE cells[c + 1]]

\* the kind of a row that comes from an exported workbook
EXPORTED == 0

\* query.order_by(sort_field).all() with sort_by=id
OrderById(orgs) ==
    [i \in 1..Cardinality(orgs) |->
        CHOOSE org \in orgs :
            Cardinality({other \in orgs : other.id < org.id}) = i - 1]

\* GET /api/organizations/export with sort_by=id: the workbook of all
\* organizations of the store; 404 when there is none
Export(reversed) ==
    /\ pc = "idle"
    /\ db.orgs # {}
    /\ exported' =
        [rows |-> [i \in 1..Cardinality(db.orgs) |->
                    ExportCells(db, OrderById(db.orgs)[i], i, reversed)],
         store |-> db]
    /\ UNCHANGED <<db, tx, pending, sess, nextId, pc, variant, width, wb,
                   organizations_new, organizations_updated, rows_processed,
                   rows_skipped, errors, outcome, startDb, runs, fed, feed,
                   ref, temp_file, filename>>

\* for row_idx, row in enumerate(ws.iter_rows(min_row=2, ...), start=2):
\* the rows of the sheet go through the loop body one after the other
RECURSIVE RowsLoopV2(_, _, _)
RowsLoopV2(run, rows, done) ==
    IF done = Len(rows) THEN run
    ELSE With(RowV2(run.s, SheetRow(rows[done + 1]), done + 2), LAMBDA r :
            RowsLoopV2([s |-> r,
                        wb |-> Append(run.wb,
                                [kind |-> EXPORTED,
                                 status |-> RowStatus(run.s, r)])],
                       rows, done + 1))

\* the exported workbook is uploaded: the whole request, from the saved file
\* through process_excel_file of the positional importer and its final
\* commit to the removal of the file
ImportExported ==
    /\ pc = "idle"
    /\ runs < MaxRuns
    /\ exported.rows # <<>>
    /\ \E run \in {RowsLoopV2(
                    [s |-> [RunRecord EXCEPT
                              !.tx = db, !.pending = EmptyPending,
                              !.sess = "active",
                              !.organizations_new = 0,
                              !.organizations_updated = 0,
                              !.rows_processed = 0, !.rows_skipped = 0,
                              !.errors = <<>>],
                     wb |-> <<>>],
                    exported.rows, 0)} :
        \E c \in {Commit(run.s)} :
           /\ db' = c.db
           /\ nextId' = c.nextId
           /\ outcome' = IF c.exc = "" THEN "returned" ELSE "raised"
           /\ organizations_new' = run.s.organizations_new
           /\ organizations_updated' = run.s.organizations_updated
           /\ rows_processed' = run.s.rows_processed
           /\ rows_skipped' = run.s.rows_skipped
           /\ errors' = run.s.errors
           /\ wb' = run.wb
    /\ tx' = db'
    /\ pending' = EmptyPending
    /\ sess' = "active"
    /\ variant' = "v2"
    /\ width' = Len(headers)
    /\ startDb' = db
    /\ runs' = runs + 1
    /\ feed' = <<>>
    /\ ref' = NoRef
    /\ temp_file' = Unlink(TRUE)
    /\ UNCHANGED <<pc, fed, exported, filename>>

\* uploads through the upload endpoint, organizations created by hand,
\* exports of the store and uploads of the exported workbook
NextExport ==
    \/ \E w \in Widths : StartRun("v2", w)
    \/ \E kind \in ExportKinds : ProcessRow(kind)
    \/ FinishRun
    \/ CreateOrganization(Str(INN_B), Str(NAME_2))
    \/ \E reversed \in BOOLEAN : Export(reversed)
    \/ ImportExported

SpecExport == Init /\ [][NextExport]_vars

(***************************************************************************)
(* Properties of the exporter                                              *)
(***************************************************************************)
\* the column from which the positional importer reads the attribute of a
\* year
ImportColumn(field, year) ==
    CASE field = "revenue" -> COL_REVENUE + (year - FIRST_YEAR)
      [] field = "profit" -> COL_PROFIT + (year - FIRST_YEAR)
      [] field = "total_employees" ->
            COL_TOTAL_EMPLOYEES + (year - FIRST_YEAR)
      [] field = "moscow_employees" ->
            COL_MOSCOW_EMPLOYEES + (year - FIRST_YEAR)
      [] field = "total_fot" -> COL_TOTAL_FOT + (year - FIRST_YEAR)
      [] field = "moscow_fot" -> COL_MOSCOW_FOT + (year - FIRST_YEAR)
      [] field = "avg_salary_total" ->
            COL_AVG_SALARY_TOTAL + (year - FIRST_YEAR)
      [] field = "avg_salary_moscow" ->
            COL_AVG_SALARY_MOSCOW + (year - FIRST_YEAR)
      [] field = "total_taxes_moscow" -> COL_TOTAL_TAXES + (year - FIRST_YEAR)
      [] field = "profit_tax" -> COL_PROFIT_TAX + (year - FIRST_YEAR)
      [] field = "property_tax" -> COL_PROPERTY_TAX + (year - FIRST_YEAR)
      [] field = "land_tax" -> COL_LAND_TAX + (year - FIRST_YEAR)
      [] field = "ndfl" -> COL_NDFL + (year - FIRST_YEAR)
      [] field = "transport_tax" ->
            COL_TRANSPORT_TAX + (year - FIRST_YEAR)
      [] field = "other_taxes" -> COL_OTHER_TAXES + (year - FIRST_YEAR)
      [] field = "excise" -> COL_EXCISE + (year - FIRST_YEAR)
      [] field = "investments" ->
            COL_INVESTMENTS + (year - FIRST_INVESTMENT_YEAR)
      [] field = "export_volume" -> COL_EXPORT + (year - FIRST_EXPORT_YEAR)

\* the table that holds the attribute
TableOf(field) ==
    IF \E i \in DOMAIN TaxFields : TaxFields[i] = field THEN "taxes"
    ELSE "metrics"

\* the organization the i-th data row of the exported workbook shows
ExportedOrg(i) == OrderById(exported.store.orgs)[i]

\* the values the exporter may show for the attribute of a year: the
\* attribute of a record of that year, "" for a value that is zero or absent
\* and for a year without a record
CellChoices(org, field, year) ==
    With({r \in {ChildrenOf(exported.store, TableOf(field), org.id)[k] :
                    k \in DOMAIN ChildrenOf(exported.store, TableOf(field),
                                            org.id)} : r.year = year},
         LAMBDA records :
            IF records = {} THEN {EMPTY}
            ELSE {ValueOrEmpty(r, field) : r \in records})

\* the organization has no record in any child table
Childless(store, org) ==
    \A table \in ChildTables : ChildrenOf(store, table, org.id) = <<>>

\* C17: every data row the exporter writes has as many cells as the header
\* row, also for an organization without child records, and every attribute
\* of a year stands, in the header row and in the data row, in the column
\* from which the positional importer reads that attribute of that year.
C17_ExportLayout ==
    \A i \in DOMAIN exported.rows :
        /\ Len(exported.rows[i]) = Len(headers)
        /\ \A p \in DOMAIN headers :
              headers[p].y # 0 =>
                /\ ImportColumn(headers[p].h, headers[p].y) = p - 1
                /\ exported.rows[i][p] \in
                      CellChoices(ExportedOrg(i), headers[p].h, headers[p].y)

\* a workbook was exported with the row of an organization without child
\* records and the row of an organization with values of two years and
\* taxes
C17_Witness ==
    /\ \E i \in DOMAIN exported.rows :
          Childless(exported.store, ExportedOrg(i))
    /\ \E i \in DOMAIN exported.rows :
          /\ exported.rows[i][COL_REVENUE + 2] = Num(7)
          /\ exported.rows[i][COL_REVENUE + 1] = Num(645670)
          /\ exported.rows[i][COL_TOTAL_TAXES + 8] = Num(15)
          /\ exported.rows[i][COL_INVESTMENTS + 1] = Num(3)

\* the columns, counted from zero, of the block of a child table in the
\* exported sheet
FamilyColumns(table) ==
    CASE table \in {"metrics", "taxes"} ->
            {p - 1 : p \in {q \in DOMAIN headers :
                              /\ headers[q].y # 0
                              /\ TableOf(headers[q].h) = table}}
      [] table = "meta" -> {COL_REGISTRY_DEVELOPMENT, COL_INDUSTRY_SPARK}
      [] OTHER -> {p - 1 : p \in {q \in DOMAIN headers :
                                    headers[q].h = table}}

\* a cell without a value
IsEmptyCell(cell) == cell = EMPTY \/ cell = None

\* C18: for an organization that has no record in a child table (metrics,
\* taxes, assets, products or meta) every cell of the block of that table in
\* the exported row is empty: it holds no zero and no placeholder text.
C18_EmptyFamilyBlocks ==
    \A i \in DOMAIN exported.rows, table \in ChildTables :
        ChildrenOf(exported.store, table, ExportedOrg(i).id) = <<>> =>
            \A c \in FamilyColumns(table) :
                IsEmptyCell(exported.rows[i][c + 1])

\* a stored zero and an absent value are the same value
ZeroAsAbsent(value) == IF Truthy(value) THEN value ELSE None

\* the year-series attributes of a child table
SeriesFields(table) ==
    IF table = "taxes" THEN TaxFields
    ELSE MetricFields \o <<"investments", "export_volume">>

\* the values the store holds for an organization and a year in a child
\* table: the attributes of each record of that year, a record without any
\* value left out
YearValues(store, table, org_id, year) ==
    {[f \in DOMAIN SeriesFields(table) |->
            ZeroAsAbsent(ChildrenOf(store, table, org_id)[k]
                            [SeriesFields(table)[f]])] :
        k \in {j \in DOMAIN ChildrenOf(store, table, org_id) :
                ChildrenOf(store, table, org_id)[j].year = year}}
    \ {[f \in DOMAIN SeriesFields(table) |-> None]}

\* the exported workbook of the current store was uploaded and the request
\* has ended
ExportImported ==
    /\ pc = "idle"
    /\ outcome # "none"
    /\ wb # <<>>
    /\ \A i \in DOMAIN wb : wb[i].kind = EXPORTED
    /\ startDb = exported.store

\* C16: for every organization with a MetricYear or TaxYear record, the
\* export of the store followed by the import of the exported workbook with
\* the positional importer leaves, for every year, the same MetricYear and
\* TaxYear values in the store, a stored zero being equal to an absent value.
C16_ExportImportRoundTrip ==
    ExportImported =>
        \A org \in startDb.orgs :
            (\E table \in {"metrics", "taxes"} :
                ChildrenOf(startDb, table, org.id) # <<>>) =>
                /\ QueryOrgByInn(db, org.inn) # None
                /\ \A table \in {"metrics", "taxes"},
                      year \in FIRST_YEAR..LAST_TAX_YEAR :
                        YearValues(db, table,
                                   QueryOrgByInn(db, org.inn).id, year)
                        = YearValues(startDb, table, org.id, year)

(***************************************************************************)
(* A long run: one workbook of MaxBatchRows data rows, each row for an     *)
(* organization of its own.  The rows before FirstFreeRow are well-formed; *)
(* from there on a row is any of BatchKinds.                               *)
(***************************************************************************)
MaxBatchRows == 102

FirstFreeRow == 99

\* a well-formed row, and a row with a head count of 2147483648
BATCH_GOOD == 20

BATCH_BIG == 21

\* the kinds of the rows of the long workbook; 5 is the row without a tax
\* identifier
BatchKinds == {BATCH_GOOD, BATCH_BIG, 5}

\* the tax identifier of the i-th data row
BatchInn(i) == <<"7", "7">> \o NatToDigits(10000000 + i)

\* the populated cells of the i-th data row
BatchCells(i, kind) ==
    CASE kind = BATCH_GOOD ->
            (COL_INN :> Str(BatchInn(i))) @@ (COL_NAME :> Str(NAME_1))
            @@ (COL_REVENUE :> Num(i))
      [] kind = BATCH_BIG ->
            (COL_INN :> Str(BatchInn(i))) @@ (COL_NAME :> Str(NAME_2))
            @@ (COL_REVENUE :> Num(i))
            @@ (COL_TOTAL_EMPLOYEES :>
                    Big(<<"2", "1", "4", "7", "4", "8", "3", "6", "4", "8">>))
      [] OTHER -> RowCells(kind)

BatchRow(i, kind) ==
    [c \in 0..(FullWidth - 1) |->
        IF c \in DOMAIN BatchCells(i, kind) THEN BatchCells(i, kind)[c]
        ELSE None]

\* the long workbook is uploaded to an empty store
StartBatchRun(v) ==
    /\ pc = "idle"
    /\ runs = 0
    /\ BeginRun(v, FullWidth)
    /\ runs' = runs + 1
    /\ UNCHANGED <<fed, feed, ref, filename>>

\* the next data row of the long workbook goes through the loop body
ProcessBatchRow(kind) ==
    /\ pc = "running"
    /\ Len(wb) < MaxBatchRows
    /\ Len(wb) + 1 < FirstFreeRow => kind = BATCH_GOOD
    /\ LoopBody(kind, BatchRow(Len(wb) + 1, kind))
    /\ UNCHANGED <<fed, feed>>

\* the process stops between two rows: the open transaction is lost, the
\* finally clause of the handler does not run
Interrupt ==
    /\ pc = "running"
    /\ pc' = "idle"
    /\ outcome' = "interrupted"
    /\ tx' = db
    /\ pending' = EmptyPending
    /\ sess' = "active"
    /\ UNCHANGED <<db, nextId, variant, width, wb, organizations_new,
                   organizations_updated, rows_processed, rows_skipped,
                   errors, startDb, runs, fed, feed, ref, exported,
                   temp_file, filename>>

NextBatch ==
    \/ \E v \in {"v1", "v2"} : StartBatchRun(v)
    \/ \E kind \in BatchKinds : ProcessBatchRow(kind)
    \/ FinishRun
    \/ Interrupt

SpecBatch == Init /\ [][NextBatch]_vars

\* the rows of the long workbook that the run counted as processed
ProcessedRows == {i \in DOMAIN wb : wb[i].status \in {"new", "updated"}}

\* the writes of the i-th row of the long workbook are in the committed
\* store: its organization and the revenue of 2017 it carries
RowCommitted(i) ==
    /\ QueryOrgByInn(db, Str(BatchInn(i))) # None
    /\ \E k \in DOMAIN db.metrics :
          /\ db.metrics[k].organization_id
                = QueryOrgByInn(db, Str(BatchInn(i))).id
          /\ db.metrics[k].revenue = Num(i)

\* the run is the upload of the long workbook
BatchRun == \A i \in DOMAIN wb : wb[i].kind \in BatchKinds

\* C19: in an import run a commit is issued each time the count of processed
\* rows reaches a multiple of 100, so after each row fewer than 100
\* processed rows are not yet committed; when the run returns every
\* processed row is committed; and when the run is interrupted after n
\* processed rows, the first 100 * floor(n / 100) processed rows are
\* committed.
C19_BatchCommit ==
    BatchRun =>
        /\ pc = "running" =>
              rows_processed
                - Cardinality({i \in DOMAIN wb : RowCommitted(i)})
              < COMMIT_EVERY
        /\ Done("returned") => \A i \in ProcessedRows : RowCommitted(i)
        /\ Done("interrupted") =>
              \A i \in ProcessedRows :
                  Cardinality({j \in ProcessedRows : j <= i})
                    <= COMMIT_EVERY * (rows_processed \div COMMIT_EVERY)
                  => RowCommitted(i)

(***************************************************************************)
(* The upload endpoint: upload_file of routers/upload.py, with the file    *)
(* name of the request.                                                    *)
(***************************************************************************)
XLSX == <<".", "x", "l", "s", "x">>

XLS == <<".", "x", "l", "s">>

\* name.endswith(suffix)
EndsWith(name, suffix) ==
    /\ Len(name) >= Len(suffix)
    /\ SubSeq(name, Len(name) - Len(suffix) + 1, Len(name)) = suffix

\* file.filename.endswith(('.xlsx', '.xls'))
HasAllowedExtension(name) == EndsWith(name, XLSX) \/ EndsWith(name, XLS)

\* the file names of the requests
FileNames ==
    {<<"d">> \o XLSX, <<"d">> \o XLS, <<"d", ".", "c", "s", "v">>,
     <<"d">> \o XLSX \o <<".", "e", "x", "e">>, <<"x", "l", "s", "x">>,
     <<"d", ".", "X", "L", "S", "X">>}

\* a request whose file name lacks the extension: HTTP 400 before anything
\* is written
RejectUpload(name) ==
    /\ pc = "idle"
    /\ ~HasAllowedExtension(name)
    /\ filename' = name
    /\ outcome' = "rejected"
    /\ UNCHANGED <<db, tx, pending, sess, nextId, pc, variant, width, wb,
                   organizations_new, organizations_updated, rows_processed,
                   rows_skipped, errors, startDb, runs, fed, feed, ref,
                   exported, temp_file>>

\* a request with a workbook openpyxl reads: the file is saved and
\* process_excel_file enters its loop
AcceptUpload(name, v) ==
    /\ pc = "idle"
    /\ runs < MaxRuns
    /\ EndsWith(name, XLSX)
    /\ filename' = name
    /\ BeginRun(v, FullWidth)
    /\ runs' = runs + 1
    /\ feed' = <<>>
    /\ ref' = NoRef
    /\ UNCHANGED fed

\* a request with a file of the old .xls format: the file is saved,
\* load_workbook raises, the handler answers HTTP 500 and its finally clause
\* removes the file
UnreadableUpload(name) ==
    /\ pc = "idle"
    /\ runs < MaxRuns
    /\ HasAllowedExtension(name)
    /\ ~EndsWith(name, XLSX)
    /\ filename' = name
    /\ outcome' = "raised"
    /\ temp_file' = Unlink(TRUE)
    /\ wb' = <<>>
    /\ startDb' = db
    /\ runs' = runs + 1
    /\ OpenSession
    /\ UNCHANGED <<db, nextId, pc, variant, width, organizations_new,
                   organizations_updated, rows_processed, rows_skipped,
                   errors, fed, feed, ref, exported>>

NextUpload ==
    \/ \E name \in FileNames : RejectUpload(name)
    \/ \E name \in FileNames, v \in {"v1", "v2"} : AcceptUpload(name, v)
    \/ \E name \in FileNames : UnreadableUpload(name)
    \/ \E kind \in RowKinds : ProcessRow(kind)
    \/ FinishRun

SpecUpload == Init /\ [][NextUpload]_vars

PyList(items) == [t |-> "list", items |-> items]

\* errors[:20]
ERROR_DETAILS_MAX == 20

\* seq[:n]
FirstN(seq, n) == SubSeq(seq, 1, IF Len(seq) < n THEN Len(seq) ELSE n)

\* "errors": len(errors)
ErrorsEntry(errs) == Num(Len(errs))

SummaryV2 ==
    [organizations_new |-> Num(organizations_new),
     organizations_updated |-> Num(organizations_updated),
     organizations_count |-> Num(organizations_new + organizations_updated),
     rows_processed |-> Num(rows_processed),
     rows_skipped |-> Num(rows_skipped),
     errors |-> ErrorsEntry(errors),
     error_details |-> PyList(FirstN(errors, ERROR_DETAILS_MAX))]

\* a run of the positional importer on a workbook has returned its summary
ReturnedV2 == Done("returned") /\ variant = "v2" /\ wb # <<>>

\* the processed rows of the run's workbook from which the importer decodes
\* no record of the child table
RowsWithout(table) ==
    {i \in DOMAIN wb :
        /\ wb[i].status \in {"new", "updated"}
        /\ LET row == SheetRows[wb[i].kind, width]
           IN  CASE table = "metrics" ->
                        MetricsLoopV2(row, 0, 0, <<>>).added = <<>>
                 [] table = "taxes" ->
                        TaxesLoopV2(row, 0, 0, <<>>).added = <<>>
                 [] table = "assets" ->
                        ~PyAny(<<RowGuarded(row, COL_CADASTRAL_LAND),
                                 RowGuarded(row, COL_CADASTRAL_BUILDING)>>)
                 [] table = "products" ->
                        ~PyAny(<<RowGuarded(row, COL_PRODUCT_NAME),
                                 RowGuarded(row, COL_PRODUCT_TYPES)>>)
                 [] OTHER ->
                        ~PyAny(<<RowGuarded(row, COL_REGISTRY_DEVELOPMENT),
                                 RowGuarded(row, COL_INDUSTRY_SPARK)>>)}

\* C21: the summary the upload endpoint returns holds, next to the counts of
\* rows processed, skipped and failed and of organizations created and
\* updated, a tally that counts for each child table the processed rows that
\* carried no data for it.
C21_SummaryHasMissingTally ==
    ReturnedV2 =>
        /\ {"rows_processed", "rows_skipped", "errors", "organizations_new",
            "organizations_updated"} \subseteq DOMAIN SummaryV2
        /\ "missing_fields" \in DOMAIN SummaryV2
        /\ \A table \in ChildTables :
              SummaryV2["missing_fields"][table]
                = Num(Cardinality(RowsWithout(table)))

\* C22: the entry 'errors' of the summary of the positional importer is a
\* collection with one record per failed row, in the order of the sheet,
\* each with the row number, the tax identifier, the name and the cause; its
\* length is the number of failed rows.
C22_ErrorsEntryIsCollection ==
    ReturnedV2 =>
        /\ SummaryV2.errors.t = "list"
        /\ Len(SummaryV2.errors.items)
              = Cardinality({i \in DOMAIN wb : wb[i].status = "failed"})
        /\ \A k \in DOMAIN SummaryV2.errors.items :
              /\ DOMAIN SummaryV2.errors.items[k]
                    = {"row", "inn", "name", "error"}
              /\ \A j \in DOMAIN SummaryV2.errors.items :
                    j < k => SummaryV2.errors.items[j].row
                                < SummaryV2.errors.items[k].row

\* the families with at most one record for an organization
SingletonTables == {"assets", "products", "meta"}

\* the record of a singleton family the positional importer builds from the
\* row, as a sequence: empty when the row carries no identifying value of
\* the family
SingletonOf(table, row, org_id) ==
    With([tx |-> EmptyStore, pending |-> EmptyPending], LAMBDA s :
        CASE table = "assets" -> AssetsV2(s, row, org_id).pending.assets
          [] table = "products" ->
                ProductsV2(s, row, org_id).pending.products
          [] OTHER -> MetaV2(s, row, org_id).pending.meta)

\* the records of the family the store holds for the tax identifier
SingletonsOfInn(store, table, inn) ==
    IF QueryOrgByInn(store, inn) = None THEN <<>>
    ELSE ChildrenOf(store, table, QueryOrgByInn(store, inn).id)

\* the processed rows of the run's workbook with the tax identifier that
\* carry an identifying value of the family
CarryingRows(table, inn) ==
    {i \in RowsOfInn(inn) :
        /\ wb[i].status \in {"new", "updated"}
        /\ SingletonOf(table, SheetRows[wb[i].kind, width], 0) # <<>>}

\* C23: in the positional importer, after a row with an identifying value of
\* a singleton family (assets, products, meta) is processed and committed,
\* the organization has exactly one record of the family, with the values of
\* the row; a row without an identifying value leaves the records of the
\* family as they were.
C23_SingletonReplaced ==
    ReturnedV2 =>
        \A inn \in {Str(INN_A), Str(INN_B)}, table \in SingletonTables :
            (\E i \in RowsOfInn(inn) : wb[i].status \in {"new", "updated"})
            =>
            /\ QueryOrgByInn(db, inn) # None
            /\ IF CarryingRows(table, inn) = {}
               THEN SingletonsOfInn(db, table, inn)
                        = SingletonsOfInn(startDb, table, inn)
               ELSE SingletonsOfInn(db, table, inn)
                        = SingletonOf(table,
                            SheetRows[wb[CHOOSE i \in CarryingRows(table, inn) :
                                            \A j \in CarryingRows(table, inn) :
                                                j <= i].kind, width],
                            QueryOrgByInn(db, inn).id)

(***************************************************************************)
(* Deletion and the full-record edit of an organization:                   *)
(* delete_organization of routers/organizations.py and                     *)
(* update_organization_full of routers/organization_analytics.py.          *)
(***************************************************************************)
\* the organization with the id, None without one
QueryOrgById(store, org_id) ==
    IF \E o \in store.orgs : o.id = org_id
    THEN CHOOSE o \in store.orgs : o.id = org_id
    ELSE None

\* the organization's row alone is deleted
DeleteRowOnly(store, org_id) ==
    [store EXCEPT !.orgs = {o \in @ : o.id # org_id}]

\* db.delete(org): the relationships cascade "all, delete-orphan", and the
\* foreign keys ON DELETE CASCADE, so the children go with the organization
CascadeDelete(store, org_id) ==
    [t \in DOMAIN store |->
        IF t = "orgs" THEN {o \in store.orgs : o.id # org_id}
        ELSE SelectSeq(store[t], LAMBDA r : r.organization_id # org_id)]

\* DELETE /api/organizations/{organization_id}
DeleteOrganization(org_id) ==
    /\ pc = "idle"
    /\ QueryOrgById(db, org_id) # None
    /\ db' = CascadeDelete(db, org_id)
    /\ tx' = db'
    /\ startDb' = db
    /\ wb' = <<>>
    /\ outcome' = "deleted"
    /\ ref' = NoRef
    /\ UNCHANGED <<pending, sess, nextId, pc, variant, width,
                   organizations_new, organizations_updated, rows_processed,
                   rows_skipped, errors, runs, fed, feed, exported,
                   temp_file, filename>>

INN_C == <<"7", "7", "0", "6", "9", "0", "1", "2", "3", "6">>

\* an id no organization got from the sequence
OTHER_ID == 9

\* the JSON bodies of the edit requests: the object "general", and whether
\* the body has the list "metrics" (then with one entry, for 2020)
NoKeys == [k \in {} |-> None]

Payloads ==
    {[general |-> [name |-> Str(NAME_2)], has_metrics |-> FALSE],
     [general |-> [inn |-> Str(INN_C)], has_metrics |-> FALSE],
     [general |-> [inn |-> Str(INN_B)], has_metrics |-> FALSE],
     [general |-> [inn |-> None], has_metrics |-> FALSE],
     [general |-> [id |-> Num(OTHER_ID)], has_metrics |-> FALSE],
     [general |-> [no_such_field |-> Num(1)], has_metrics |-> FALSE],
     [general |-> NoKeys, has_metrics |-> TRUE],
     [general |-> [id |-> Num(OTHER_ID)], has_metrics |-> TRUE]}

\* an assignment loop that leaves the identifying attributes alone
SetGeneralAllowed(org, general) ==
    [f \in DOMAIN org |->
        IF f \in DOMAIN general \ {"id", "inn"} THEN general[f] ELSE org[f]]

\* for key, value in general.items(): if hasattr(org, key):
\*     setattr(org, key, value)
SetGeneral(org, general) ==
    [f \in DOMAIN org |->
        IF f \in DOMAIN general
        THEN IF f = "id" THEN general[f].n ELSE general[f]
        ELSE org[f]]

\* the row of data["metrics"]: year 2020 with a revenue
EditedMetric(org_id) ==
    [organization_id |-> org_id, year |-> 2020, revenue |-> Num(5),
     profit |-> None, total_employees |-> None, moscow_employees |-> None,
     total_fot |-> None, moscow_fot |-> None, avg_salary_total |-> None,
     avg_salary_moscow |-> None, investments |-> None,
     export_volume |-> None]

\* the constraints the UPDATE of the organization's row has to meet: NOT
\* NULL, length and UNIQUE of the organizations table, its primary key, and
\* the foreign keys of the child rows, which do not follow a changed id
OrgUpdateOk(store, old, new) ==
    /\ new.inn # None
    /\ new.name # None
    /\ new.inn.t = "str" => Len(new.inn.s) <= INN_MAX_LEN
    /\ \A p \in store.orgs \ {old} : p.inn # new.inn /\ p.id # new.id
    /\ new.id # old.id =>
          \A t \in ChildTables : ChildrenOf(store, t, old.id) = <<>>

\* POST /organizations/{organization_id}/edit-full: the attributes of
\* "general" are set, the metrics are deleted and added again, and the
\* commit either takes all of it or, after a constraint failed, nothing
\* (the rollback of the except branch, answered with status 500)
EditFull(org_id, payload) ==
    /\ pc = "idle"
    /\ QueryOrgById(db, org_id) # None
    /\ \E org \in {QueryOrgById(db, org_id)} :
       \E new \in {SetGeneral(org, payload.general)} :
       \E deleted \in {IF payload.has_metrics
                       THEN BulkDelete(db, "metrics", org_id) ELSE db} :
       \E updated \in {[deleted EXCEPT
                          !.orgs = (@ \ {org}) \cup {new},
                          !.metrics = IF payload.has_metrics
                                      THEN Append(@, EditedMetric(org_id))
                                      ELSE @]} :
          IF /\ OrgUpdateOk(deleted, org, new)
             /\ payload.has_metrics =>
                    ChildInsertOk(updated, "metrics", EditedMetric(org_id))
          THEN db' = updated /\ outcome' = "edited"
          ELSE db' = db /\ outcome' = "edit failed"
    /\ tx' = db'
    /\ startDb' = db
    /\ wb' = <<>>
    /\ ref' = NoRef
    /\ UNCHANGED <<pending, sess, nextId, pc, variant, width,
                   organizations_new, organizations_updated, rows_processed,
                   rows_skipped, errors, runs, fed, feed, exported,
                   temp_file, filename>>

\* the rows the workbooks are built from when organizations are edited and
\* deleted
EditKinds == {1, 3}

\* the ids of the requests
EditIds == {1, 2, OTHER_ID}

NextEdit ==
    \/ StartRun("v2", FullWidth)
    \/ \E kind \in EditKinds : ProcessRow(kind)
    \/ FinishRun
    \/ \E org_id \in EditIds : DeleteOrganization(org_id)
    \/ \E org_id \in EditIds, payload \in Payloads : EditFull(org_id, payload)

SpecEdit == Init /\ [][NextEdit]_vars

\* the records of the child tables of a store
ChildRecords(store) ==
    UNION {{store[t][i] : i \in 1..Len(store[t])} : t \in ChildTables}

\* how many organizations of the store a child record refers to
Referred(store, r) ==
    Cardinality({o \in store.orgs : o.id = r.organization_id})

C26_EditKeepsIdAndInn ==
    [][pc = "idle" /\ outcome' = "edited" =>
          \A o \in db.orgs :
              /\ QueryOrgByInn(db', o.inn) # None
              /\ QueryOrgByInn(db', o.inn).id = o.id]_vars

(***************************************************************************)
(* Tax identifiers of imported organizations                               *)
(***************************************************************************)
NextInn ==
    \/ \E v \in {"v1", "v2"} : StartRun(v, FullWidth)
    \/ \E kind \in InnKinds : ProcessRow(kind)
    \/ FinishRun

SpecInn == Init /\ [][NextInn]_vars

\* validate_inn of schemas.py: only digits, 10 or 12 of them
ValidInn(inn) ==
    /\ inn.t = "str"
    /\ \A i \in 1..Len(inn.s) : IsDigit(inn.s[i])
    /\ Len(inn.s) \in {10, 12}

\* C25: every organization an import run persisted has a tax identifier
\* of exactly 10 or exactly 12 digits
C25_PersistedInnIsTenOrTwelveDigits ==
    \A o \in db.orgs : ValidInn(o.inn)

\* C27: when an import run returns, the organizations it reports as created
\* and as updated add up to the rows it reports as processed, in both
\* importers and for every workbook, workbooks with failing rows included
C27_CreatedPlusUpdatedIsProcessed ==
    Done("returned") =>
        organizations_new + organizations_updated = rows_processed

(***************************************************************************)
(* The records of the years                                                *)
(***************************************************************************)
NextYears ==
    \/ \E v \in {"v1", "v2"} : StartRun(v, FullWidth)
    \/ \E kind \in YearKinds : ProcessRow(kind)
    \/ FinishRun

SpecYears == Init /\ [][NextYears]_vars

\* the years the sheet has a column of the attribute for
FieldYears(field) ==
    CASE field = "investments" -> FIRST_INVESTMENT_YEAR..LAST_METRIC_YEAR
      [] field = "export_volume" -> FIRST_EXPORT_YEAR..LAST_METRIC_YEAR
      [] TableOf(field) = "taxes" -> FIRST_YEAR..LAST_TAX_YEAR
      [] OTHER -> FIRST_YEAR..LAST_METRIC_YEAR

\* the cell holds a value
PresentCell(cell) == cell # None /\ cell # Str(<<>>)

\* the row has a value of the table's family for the year
HasYearValue(row, table, year) ==
    \E k \in DOMAIN SeriesFields(table) :
        /\ year \in FieldYears(SeriesFields(table)[k])
        /\ PresentCell(row[ImportColumn(SeriesFields(table)[k], year)])

\* C28: a year of a family's range gets a year record whenever at least one
\* field of the family holds a value for that year, a zero included, and in
\* the header-driven importer also when the only value is that of a field
\* other than revenue, profit and total employee count
C28_YearRecordForEveryPresentYear ==
    (/\ Done("returned")
     /\ \A i \in 1..Len(wb) : wb[i].status # "failed") =>
        \A i \in RowsWithInn :
            i = LastRowOfInn(KindInn(wb[i].kind)) =>
                \A table \in {"metrics", "taxes"},
                   year \in FIRST_YEAR..LAST_TAX_YEAR :
                    HasYearValue(SheetRows[wb[i].kind, width], table, year)
                    => \E o \in db.orgs :
                          /\ o.inn = KindInn(wb[i].kind)
                          /\ \E k \in DOMAIN db[table] :
                                /\ db[table][k].organization_id = o.id
                                /\ db[table][k].year = year

(***************************************************************************)
(* Product and meta records across an export and an import                 *)
(***************************************************************************)
\* the product values the store holds for an organization
ProductValues(store, org_id) ==
    {[product_name |-> r.product_name,
      standardized_product |-> r.standardized_product,
      product_types |-> r.product_types,
      okpd2_codes |-> r.okpd2_codes] :
        r \in {ChildrenOf(store, "products", org_id)[k] :
                 k \in DOMAIN ChildrenOf(store, "products", org_id)}}

\* the industry and registry values the store holds for an organization
MetaValues(store, org_id) ==
    {[registry_development |-> r.registry_development,
      industry_spark |-> r.industry_spark] :
        r \in {ChildrenOf(store, "meta", org_id)[k] :
                 k \in DOMAIN ChildrenOf(store, "meta", org_id)}}

\* C29: for every organization with a product record and a meta record, the
\* export of the store followed by the import of the exported workbook with
\* the positional importer leaves product name, standardized product,
\* product types and product codes and the industry and registry values of
\* the meta record as they were before the export
C29_ProductsAndMetaRoundTrip ==
    ExportImported =>
        \A org \in startDb.orgs :
            (/\ ChildrenOf(startDb, "products", org.id) # <<>>
             /\ ChildrenOf(startDb, "meta", org.id) # <<>>) =>
                /\ QueryOrgByInn(db, org.inn) # None
                /\ ProductValues(db, QueryOrgByInn(db, org.inn).id)
                   = ProductValues(startDb, org.id)
                /\ MetaValues(db, QueryOrgByInn(db, org.inn).id)
                   = MetaValues(startDb, org.id)

(***************************************************************************)
(* The spellings of a header in the header-driven importer                 *)
(***************************************************************************)
NextAlias ==
    \/ StartRun("v1", AliasWidth)
    \/ \E kind \in AliasKinds : ProcessRow(kind)
    \/ FinishRun

SpecAlias == Init /\ [][NextAlias]_vars

\* the columns of the spellings of a header for the first year, in the
\* order of the spellings
AliasColumns(field) ==
    CASE field = "moscow_fot" ->
            <<COL_MOSCOW_FOT, COL_MOSCOW_FOT_2, COL_MOSCOW_FOT_3>>
      [] field = "avg_salary_moscow" ->
            <<COL_AVG_SALARY_MOSCOW, COL_AVG_SALARY_MOSCOW_2>>
      [] field = "land_tax" -> <<COL_LAND_TAX, COL_LAND_TAX_2>>

AliasFields == {"moscow_fot", "avg_salary_moscow", "land_tax"}

\* the number the first non-empty cell among the columns holds, None when
\* all of them are empty
FirstAliasValue(row, cols) ==
    IF \A k \in DOMAIN cols : ~PresentCell(row[cols[k]]) THEN None
    ELSE PyFloat(row[cols[CHOOSE k \in DOMAIN cols :
                            /\ PresentCell(row[cols[k]])
                            /\ \A j \in 1..(k - 1) :
                                  ~PresentCell(row[cols[j]])]])

\* the rows of a returned run of the header-driven importer that were
\* stored and are the last of their organization
StoredAliasRows ==
    {i \in RowsWithInn :
        /\ wb[i].status # "failed"
        /\ i = LastRowOfInn(KindInn(wb[i].kind))}

\* the record of the first year the store holds for the row's organization
\* in the field's table has the value for the field
StoredForRow(i, field, value) ==
    \E o \in db.orgs :
        /\ o.inn = KindInn(wb[i].kind)
        /\ \E k \in DOMAIN db[TableOf(field)] :
              /\ db[TableOf(field)][k].organization_id = o.id
              /\ db[TableOf(field)][k].year = FIRST_YEAR
              /\ db[TableOf(field)][k][field] = value

\* C30: in the header-driven importer the Moscow payroll total, the Moscow
\* average salary and the land tax each take the value of the first
\* spelling of the header, in the fixed order, whose cell is not empty;
\* later spellings are not consulted, and the field is absent when every
\* spelling has an empty cell
C30_FirstAliasWins ==
    (/\ Done("returned")
     /\ variant = "v1"
     /\ width = AliasWidth
     /\ \A i \in 1..Len(wb) : wb[i].status # "failed") =>
        \A i \in StoredAliasRows, field \in AliasFields :
            StoredForRow(i, field,
                FirstAliasValue(SheetRows[wb[i].kind, width],
                                AliasColumns(field)))

\* a row was stored whose first spelling of the payroll header is empty
\* while the second and the third hold 5 and 7, whose salary header has a
\* value under both spellings and whose land tax is under the second only;
\* and a row whose payroll cell of the first spelling holds a zero
C30_Witness ==
    /\ Done("returned")
    /\ variant = "v1"
    /\ Len(wb) = 2
    /\ wb[1].kind = 15 /\ wb[1].status = "new"
    /\ wb[2].kind = 16 /\ wb[2].status = "new"
    /\ StoredForRow(1, "moscow_fot", Num(5))
    /\ StoredForRow(1, "avg_salary_moscow", Num(3))
    /\ StoredForRow(1, "land_tax", Num(8))
    /\ StoredForRow(2, "moscow_fot", Num(0))
    /\ StoredForRow(2, "avg_salary_moscow", Num(4))
    /\ StoredForRow(2, "land_tax", None)

====
